---- MODULE Spec2Model ----
(***************************************************************************)
(* A model of lava's checktype build cache (package build: Code.Build,     *)
(* Code.isModified, InspectImage, NewImage, Image.Checktype, lastModified) *)
(* and of the check generator (generateChecks with checktypes.Accepts).    *)
(*                                                                         *)
(* Times are whole seconds.  time.RFC822 ("02 Jan 06 15:04 MST") has no    *)
(* seconds field, so Format drops everything below the minute and Parse    *)
(* yields the first second of the minute.  The zone abbreviation is the    *)
(* one of the process's own location on both sides and is not modelled.    *)
(***************************************************************************)
EXTENDS Integers, Sequences, FiniteSets, TLC

(***************************************************************************)
(* Bounds of the model.                                                    *)
(***************************************************************************)
\* Directory times range over the minutes 0..MaxMinute.
MaxMinute == 1
\* Operations (Build calls and directory modifications) recorded per run.
MaxOps == 3
\* Directory modifications per run.
MaxTouches == 1
\* Build calls per run when the run starts from any state.
MaxCalls == 1
\* Targets per call of the check generator.
MaxTargets == 2
\* Calls of the check generator per run.
MaxGenCalls == 1

\* Seconds in one step of the RFC822 text form (it ends at the minute).
SecondsPerMinute == 60
\* Offsets inside a minute that directory times take.
SubMinute == {0, 30}
Minutes == 0..MaxMinute
Times == {m * SecondsPerMinute + s : m \in Minutes, s \in SubMinute}

Max(S) == CHOOSE x \in S : \A y \in S : y <= x

(***************************************************************************)
(* Image labels (store.go:1123-1138).                                      *)
(***************************************************************************)
lastModifiedTimeLabel == "com.adevinta.vulcan.last_modified_file"
checktypeNameLabel == "com.adevinta.vulcan.name"
checktypeManifest == "com.adevinta.vulcan.manifest"
LabelKeys == {lastModifiedTimeLabel, checktypeNameLabel, checktypeManifest}

\* modif.Format(time.RFC822): the text names the minute and nothing finer.
Format(t) == "01 Jan 70 00:0" \o ToString(t \div SecondsPerMinute) \o " UTC"

\* time.Parse(time.RFC822, text): the first second of the minute the text
\* names; an error for a text that is not of that form.
Parse(text) ==
  IF \E m \in 0..9 : Format(m * SecondsPerMinute) = text
  THEN [err |-> FALSE,
        t |-> SecondsPerMinute * (CHOOSE m \in 0..9 : Format(m * SecondsPerMinute) = text)]
  ELSE [err |-> TRUE, t |-> 0]

\* A label text that is no RFC822 time.
BadTimeText == "yesterday"

(***************************************************************************)
(* The manifest.  A manifest text either does not parse, or parses into a  *)
(* manifest with the fields Image.Checktype reads: the description, the    *)
(* timeout, the options text, the required variables and the asset types.  *)
(* Its options text may not decode and its asset types may not convert     *)
(* into strings (Image.Checktype then fails).                              *)
(***************************************************************************)
ManifestFile == "manifest.toml"
GoodManifest == "Description='d' AssetTypes=['Hostname'] RequiredVars=['VAR'] Options='{}'"
BadOptionsManifest == "Description='d' AssetTypes=['Hostname'] Options='{'"
BadAssetTypesManifest == "Description='d' AssetTypes=['Bogus'] Options='{}'"
MalformedManifest == "Description="
\* The manifest of another checktype.
OtherManifest == "Description='o' Options='{}'"
ManifestTexts == {GoodManifest, BadOptionsManifest, BadAssetTypesManifest, MalformedManifest}

\* The zero Manifest.
NoManifest ==
  [Description |-> "", Timeout |-> 0, Options |-> "", RequiredVars |-> <<>>,
   AssetTypes |-> <<>>]

\* The fields of the manifest texts of the model that parse.
ManifestFields ==
  (GoodManifest :>
     [Description |-> "d", Timeout |-> 0, Options |-> "{}", RequiredVars |-> <<"VAR">>,
      AssetTypes |-> <<"Hostname">>])
  @@ (BadOptionsManifest :>
     [Description |-> "d", Timeout |-> 0, Options |-> "{", RequiredVars |-> <<>>,
      AssetTypes |-> <<"Hostname">>])
  @@ (BadAssetTypesManifest :>
     [Description |-> "d", Timeout |-> 0, Options |-> "{}", RequiredVars |-> <<>>,
      AssetTypes |-> <<"Bogus">>])
  @@ (OtherManifest :>
     [Description |-> "o", Timeout |-> 0, Options |-> "{}", RequiredVars |-> <<>>,
      AssetTypes |-> <<>>])

ParseManifest(text) ==
  IF text \in DOMAIN ManifestFields THEN [err |-> FALSE, manifest |-> ManifestFields[text]]
  ELSE [err |-> TRUE, manifest |-> NoManifest]

\* Manifest.UnmarshalOptions: the options text decoded into a map; an empty
\* text gives an empty map.
UnmarshalOptions(manifest) ==
  IF manifest.Options \in {"", "{}"} THEN [err |-> FALSE, options |-> <<>>]
  ELSE [err |-> TRUE, options |-> <<>>]

\* The asset types of the enumeration that the model uses.
AssetTypeNames == {"DomainName", "Hostname", "WebAddress", "GitRepository"}

\* types.AssetType.IsValid: membership in the enumeration.
IsValid(at) == at \in AssetTypeNames

\* Manifest.AssetTypes.Strings(): the names of the asset types; an error
\* when one of them is none of the enumeration.
AssetTypesStrings(manifest) ==
  IF \E i \in 1..Len(manifest.AssetTypes) : ~IsValid(manifest.AssetTypes[i])
  THEN [err |-> TRUE, strings |-> <<>>]
  ELSE [err |-> FALSE, strings |-> manifest.AssetTypes]

(***************************************************************************)
(* The source directory: a tree of regular files, each a path (a sequence  *)
(* of path elements under the directory) with its modification time.       *)
(***************************************************************************)
\* The Code value: the directory's path.
Dir == <<"checks", "vulcan-example">>
MainFile == <<"main.go">>
ManifestPath == <<ManifestFile>>
GitFile == <<".git", "HEAD">>
Paths == {MainFile, ManifestPath, GitFile}

\* Code.name: path.Base of the directory.
name(c) == c[Len(c)]
\* The image name made from the last two elements of the directory's path.
imageNameWithParent(c) ==
  (IF Len(c) > 1 THEN c[Len(c) - 1] \o "-" ELSE "") \o name(c) \o "-" \o "local"

\* Code.imageName.
imageName(c) == name(c) \o "-" \o "local"

\* The walk with the directories named ".git" descended into.
WalkedIntoGit(tree) == DOMAIN tree

\* filepath.WalkDir with SkipDir on a directory named ".git": the files the
\* walk reaches.
Walked(tree) ==
  {p \in DOMAIN tree : \A i \in 1..(Len(p) - 1) : p[i] # ".git"}

\* lastModified(dir): the newest modification time of the walked files; an
\* error when the walk fails or reaches no file.
lastModified(tree, walkOk) ==
  IF ~walkOk THEN [err |-> TRUE, t |-> 0]
  ELSE IF Walked(tree) = {} THEN [err |-> TRUE, t |-> 0]
  ELSE [err |-> FALSE, t |-> Max({tree[p] : p \in Walked(tree)})]

(***************************************************************************)
(* The container engine: the images it holds, by tag, each with labels.    *)
(***************************************************************************)
NoLabels == <<>>

TextsFor(k) ==
  IF k = lastModifiedTimeLabel THEN {Format(t) : t \in Times} \cup {BadTimeText}
  ELSE IF k = checktypeNameLabel THEN {name(Dir)}
  ELSE ManifestTexts

LabelMaps ==
  UNION {{f \in [S -> UNION {TextsFor(k) : k \in S}] : \A k \in S : f[k] \in TextsFor(k)} :
         S \in SUBSET LabelKeys}

\* dockerutil.ImageLabels: the labels of the listed images that match the
\* reference; no image gives no label and no error.
ImageLabels(imgs, image, listOk) ==
  IF ~listOk THEN [err |-> TRUE, labels |-> NoLabels]
  ELSE IF image \in DOMAIN imgs THEN [err |-> FALSE, labels |-> imgs[image]]
  ELSE [err |-> FALSE, labels |-> NoLabels]

\* The zero Image of the error returns.
NoImage == [Name |-> "", ChecktypeName |-> "", Manifest |-> NoManifest, LastModified |-> 0]

\* Error kinds: "" is nil, "ErrNoChecktypeImage" wraps that type, "error" is
\* any other error.
ErrNoChecktypeImage == "ErrNoChecktypeImage"

\* InspectImage with the missing name label reported as a plain error.
InspectImagePlainNameError(imgs, image, listOk) ==
  LET r == ImageLabels(imgs, image, listOk)
      labels == r.labels
  IN  IF r.err THEN [err |-> "error", image |-> NoImage]
      ELSE IF lastModifiedTimeLabel \notin DOMAIN labels
        THEN [err |-> ErrNoChecktypeImage, image |-> NoImage]
      ELSE IF Parse(labels[lastModifiedTimeLabel]).err
        THEN [err |-> ErrNoChecktypeImage, image |-> NoImage]
      ELSE IF checktypeNameLabel \notin DOMAIN labels
        THEN [err |-> "error", image |-> NoImage]
      ELSE IF checktypeManifest \notin DOMAIN labels
        THEN [err |-> ErrNoChecktypeImage, image |-> NoImage]
      ELSE IF ParseManifest(labels[checktypeManifest]).err
        THEN [err |-> ErrNoChecktypeImage, image |-> NoImage]
      ELSE [err |-> "",
            image |-> [Name |-> image,
                       ChecktypeName |-> labels[checktypeNameLabel],
                       Manifest |-> ParseManifest(labels[checktypeManifest]).manifest,
                       LastModified |-> Parse(labels[lastModifiedTimeLabel]).t]]

\* InspectImage with the image's name given as the checktype's name.
InspectImageNameFromTag(imgs, image, listOk) ==
  LET r == ImageLabels(imgs, image, listOk)
      labels == r.labels
  IN  IF r.err THEN [err |-> "error", image |-> NoImage]
      ELSE IF lastModifiedTimeLabel \notin DOMAIN labels
        THEN [err |-> ErrNoChecktypeImage, image |-> NoImage]
      ELSE IF Parse(labels[lastModifiedTimeLabel]).err
        THEN [err |-> ErrNoChecktypeImage, image |-> NoImage]
      ELSE IF checktypeNameLabel \notin DOMAIN labels
        THEN [err |-> ErrNoChecktypeImage, image |-> NoImage]
      ELSE IF checktypeManifest \notin DOMAIN labels
        THEN [err |-> ErrNoChecktypeImage, image |-> NoImage]
      ELSE IF ParseManifest(labels[checktypeManifest]).err
        THEN [err |-> ErrNoChecktypeImage, image |-> NoImage]
      ELSE [err |-> "",
            image |-> [Name |-> image,
                       ChecktypeName |-> image,
                       Manifest |-> ParseManifest(labels[checktypeManifest]).manifest,
                       LastModified |-> Parse(labels[lastModifiedTimeLabel]).t]]

InspectImage(imgs, image, listOk) ==
  LET r == ImageLabels(imgs, image, listOk)
      labels == r.labels
  IN  IF r.err THEN [err |-> "error", image |-> NoImage]
      ELSE IF lastModifiedTimeLabel \notin DOMAIN labels
        THEN [err |-> ErrNoChecktypeImage, image |-> NoImage]
      ELSE IF Parse(labels[lastModifiedTimeLabel]).err
        THEN [err |-> ErrNoChecktypeImage, image |-> NoImage]
      ELSE IF checktypeNameLabel \notin DOMAIN labels
        THEN [err |-> ErrNoChecktypeImage, image |-> NoImage]
      ELSE IF checktypeManifest \notin DOMAIN labels
        THEN [err |-> ErrNoChecktypeImage, image |-> NoImage]
      ELSE IF ParseManifest(labels[checktypeManifest]).err
        THEN [err |-> ErrNoChecktypeImage, image |-> NoImage]
      ELSE [err |-> "",
            image |-> [Name |-> image,
                       ChecktypeName |-> labels[checktypeNameLabel],
                       Manifest |-> ParseManifest(labels[checktypeManifest]).manifest,
                       LastModified |-> Parse(labels[lastModifiedTimeLabel]).t]]

\* The zero Checktype of the error returns.
NoChecktype ==
  [Name |-> "", Description |-> "", Image |-> "", Timeout |-> 0, Options |-> <<>>,
   RequiredVars |-> <<>>, Assets |-> <<>>]

\* Image.Checktype: the descriptor of the checktype an image holds.  The
\* required variables are copied one by one into a new slice, which is nil
\* when there is none; a nil and an empty sequence are both <<>> here.
Checktype(i) ==
  IF UnmarshalOptions(i.Manifest).err THEN [err |-> TRUE, ct |-> NoChecktype]
  ELSE IF AssetTypesStrings(i.Manifest).err THEN [err |-> TRUE, ct |-> NoChecktype]
  ELSE [err |-> FALSE,
        ct |-> [Name |-> i.ChecktypeName,
                Description |-> i.Manifest.Description,
                Image |-> i.Name,
                Timeout |-> i.Manifest.Timeout,
                Options |-> UnmarshalOptions(i.Manifest).options,
                RequiredVars |-> [k \in 1..Len(i.Manifest.RequiredVars) |->
                                    i.Manifest.RequiredVars[k]],
                Assets |-> AssetTypesStrings(i.Manifest).strings]]

\* Code.isModified, the label lookup, with every inspection error
\* returned (no errors.As branch).
isModifiedLookupNoFallback(c, imgs, listOk) ==
  LET r == InspectImage(imgs, imageName(c), listOk)
  IN  IF r.err # "" THEN [err |-> TRUE, known |-> FALSE, last |-> 0]
      ELSE [err |-> FALSE, known |-> TRUE, last |-> r.image.LastModified]

\* Code.isModified, the label lookup (store.go:1370-1379): an image that is
\* no prior build of the checktype (known is FALSE) makes the directory
\* modified without a look at it; last is the time the image records.
isModifiedLookup(c, imgs, listOk) ==
  LET r == InspectImage(imgs, imageName(c), listOk)
  IN  IF r.err = ErrNoChecktypeImage THEN [err |-> FALSE, known |-> FALSE, last |-> 0]
      ELSE IF r.err # "" THEN [err |-> TRUE, known |-> FALSE, last |-> 0]
      ELSE [err |-> FALSE, known |-> TRUE, last |-> r.image.LastModified]

\* Code.isModified, the walk of the directory and the comparison
\* (store.go:1380-1387): modified is dirTime.Equal(image.LastModified).
isModifiedWalk(last, tree, walkOk) ==
  LET dirTime == lastModified(tree, walkOk)
  IN  IF dirTime.err THEN [err |-> TRUE, modified |-> FALSE]
      ELSE [err |-> FALSE, modified |-> (dirTime.t = last)]

\* The image NewImage asks the engine to build: the engine's images with the
\* tag pointing at an image that carries the labels.
WithImage(imgs, tag, labels) ==
  [t \in DOMAIN imgs \cup {tag} |-> IF t = tag THEN labels ELSE imgs[t]]

\* The labels with the fingerprint written under the name label's key and
\* the name under the fingerprint's.
NewLabelsKeysSwapped(checktype, manifestContent, t) ==
  [k \in LabelKeys |->
     IF k = checktypeNameLabel THEN t
     ELSE IF k = checktypeManifest THEN manifestContent
     ELSE checktype]

\* The three labels NewImage attaches (store.go:1239-1243).
NewLabels(checktype, manifestContent, t) ==
  [k \in LabelKeys |->
     IF k = checktypeNameLabel THEN checktype
     ELSE IF k = checktypeManifest THEN manifestContent
     ELSE t]

\* The cache hit answered from the first inspection, with no second lookup.
ReuseFirstInspection(c, imgs, tree, env, l) ==
  LET first == InspectImage(imgs, imageName(c), TRUE)
  IN  IF Checktype(first.image).err
        THEN [err |-> TRUE, ct |-> NoChecktype, images |-> imgs, tree |-> tree,
              step |-> "hit-checktype", builds |-> 0, lookups |-> l]
      ELSE [err |-> FALSE, ct |-> Checktype(first.image).ct, images |-> imgs,
            tree |-> tree, step |-> "hit", builds |-> 0, lookups |-> l]

\* Code.Build, the cache hit (store.go:1345-1352): the image is inspected
\* again and its descriptor returned.  l counts the label lookups so far.
\* The directory is not touched.
Reuse(c, imgs, tree, env, l) ==
  LET again == InspectImage(imgs, imageName(c), env.list2)
      fail(step) ==
        [err |-> TRUE, ct |-> NoChecktype, images |-> imgs, tree |-> tree,
         step |-> step, builds |-> 0, lookups |-> l + 1]
  IN  IF again.err # "" THEN fail("inspect")
      ELSE IF Checktype(again.image).err THEN fail("hit-checktype")
      ELSE [err |-> FALSE, ct |-> Checktype(again.image).ct, images |-> imgs,
            tree |-> tree, step |-> "hit", builds |-> 0, lookups |-> l + 1]

\* The executable go build writes: it is named after the directory and
\* lies in the directory itself (cmd.Dir = dir, no -o).
BinaryPath(c) == <<name(c)>>

\* goBuildDir(dir): go build -a in the directory.  A build that works
\* writes the executable into the directory at the time now; a build that
\* fails writes nothing.
goBuildDir(c, tree, ok, now) ==
  IF ~ok THEN [err |-> TRUE, tree |-> tree]
  ELSE [err |-> FALSE,
        tree |-> [p \in DOMAIN tree \cup {BinaryPath(c)} |->
                    IF p = BinaryPath(c) THEN now ELSE tree[p]]]

(***************************************************************************)
(* Code.Build, statement by statement.  Build holds no lock and waits for  *)
(* the engine's answers and for go build, so other processes can write the *)
(* directory and the engine between two of its statements.  A call in      *)
(* progress is a record: the statement it is at (pc), what the             *)
(* surroundings answer in it (env: client, list1 and list2 for the two     *)
(* image listings, walk1 and walk2 for the two walks, compile, read, tar,  *)
(* engine), the time at which its go build writes (now), the state it was  *)
(* called in, what it has read so far (last: the time the image records,   *)
(* content: the manifest file's text, modif: the directory's time), the    *)
(* statements it has run (trace), and whether the directory was written by *)
(* another process meanwhile (touched).                                    *)
(***************************************************************************)
NewCall(env, now, imgs, tr, text) ==
  [pc |-> "client", env |-> env, now |-> now, touched |-> FALSE,
   images0 |-> imgs, tree0 |-> tr, text0 |-> text,
   last |-> 0, content |-> "", modif |-> 0, trace |-> <<>>]

\* What one statement does: the call goes on at another statement, or it
\* returns (done) with the error flag, the statement it returned from
\* (step), the numbers of engine build calls and label lookups issued, and
\* the descriptor; images and tree are the engine and the directory after
\* the statement.
Goes(k, pc, imgs, tr) ==
  [done |-> FALSE, call |-> [k EXCEPT !.pc = pc, !.trace = Append(@, k.pc)],
   images |-> imgs, tree |-> tr,
   err |-> FALSE, step |-> "", builds |-> 0, lookups |-> 0, ct |-> NoChecktype]

Returns(k, err, step, builds, lookups, ct, imgs, tr) ==
  [done |-> TRUE, call |-> [k EXCEPT !.trace = Append(@, k.pc)],
   images |-> imgs, tree |-> tr,
   err |-> err, step |-> step, builds |-> builds, lookups |-> lookups, ct |-> ct]

Fails(k, step, builds, lookups, imgs, tr) ==
  Returns(k, TRUE, step, builds, lookups, NoChecktype, imgs, tr)

\* The statements of the rebuild with the fingerprint taken before the
\* archive is made.
FollowingFingerprintFirst(pc) ==
  CASE pc = "compile" -> "manifest"
    [] pc = "manifest" -> "fingerprint"
    [] pc = "fingerprint" -> "archive"
    [] pc = "archive" -> "engine"

\* The statement that follows a statement of the rebuild that worked:
\* goBuildDir (store.go:1356), then in NewImage the manifest (1215-1226),
\* buildTarFromDir (1228), lastModified (1233), BuildImage (1245).
Following(pc) ==
  CASE pc = "compile" -> "manifest"
    [] pc = "manifest" -> "archive"
    [] pc = "archive" -> "fingerprint"
    [] pc = "fingerprint" -> "engine"

\* containers.NewDockerdClient (store.go:1336-1339).
AtClient(c, k, imgs, tr, text) ==
  IF ~k.env.client THEN Fails(k, "client", 0, 0, imgs, tr)
  ELSE Goes(k, "inspect", imgs, tr)

\* c.isModified, the label lookup (store.go:1341, 1370-1379).
AtInspect(c, k, imgs, tr, text) ==
  LET l == isModifiedLookup(c, imgs, k.env.list1)
  IN  IF l.err THEN Fails(k, "isModified", 0, 1, imgs, tr)
      ELSE IF ~l.known THEN Goes(k, "compile", imgs, tr)
      ELSE Goes([k EXCEPT !.last = l.last], "walk", imgs, tr)

\* c.isModified, the walk, and the branch of Build on its result
\* (store.go:1380-1387, 1342-1345).
AtWalk(c, k, imgs, tr, text) ==
  LET w == isModifiedWalk(k.last, tr, k.env.walk1)
  IN  IF w.err THEN Fails(k, "isModified", 0, 1, imgs, tr)
      ELSE IF w.modified THEN Goes(k, "compile", imgs, tr)
      ELSE Goes(k, "reuse", imgs, tr)

\* The cache hit (store.go:1345-1352).
AtReuse(c, k, imgs, tr, text) ==
  LET r == Reuse(c, imgs, tr, k.env, 1)
  IN  Returns(k, r.err, r.step, r.builds, r.lookups, r.ct, imgs, tr)

\* goBuildDir (store.go:1356-1358): the executable is written.
AtCompile(c, k, imgs, tr, text) ==
  LET gb == goBuildDir(c, tr, k.env.compile, k.now)
  IN  IF gb.err THEN Fails(k, "compile", 0, 1, imgs, gb.tree)
      ELSE Goes(k, Following("compile"), imgs, gb.tree)

\* The manifest read without the check of ParseManifest's error.
AtManifestNoParseCheck(c, k, imgs, tr, text) ==
  IF ManifestPath \notin DOMAIN tr \/ ~k.env.read
  THEN Fails(k, "manifest", 0, 1, imgs, tr)
  ELSE Goes([k EXCEPT !.content = text], Following("manifest"), imgs, tr)

\* NewImage, the manifest file read and parsed (store.go:1215-1226).  env
\* holds whether os.ReadFile of an existing file works (read).
AtManifest(c, k, imgs, tr, text) ==
  IF ManifestPath \notin DOMAIN tr \/ ~k.env.read \/ ParseManifest(text).err
  THEN Fails(k, "manifest", 0, 1, imgs, tr)
  ELSE Goes([k EXCEPT !.content = text], Following("manifest"), imgs, tr)

\* buildTarFromDir with its error dropped.
AtArchiveUnchecked(c, k, imgs, tr, text) ==
  Goes(k, Following("archive"), imgs, tr)

\* NewImage, buildTarFromDir (store.go:1228-1231).
AtArchive(c, k, imgs, tr, text) ==
  IF ~k.env.tar THEN Fails(k, "archive", 0, 1, imgs, tr)
  ELSE Goes(k, Following("archive"), imgs, tr)

\* NewImage, lastModified and its text form (store.go:1233-1237).
AtFingerprint(c, k, imgs, tr, text) ==
  LET modif == lastModified(tr, k.env.walk2)
  IN  IF modif.err THEN Fails(k, "fingerprint", 0, 1, imgs, tr)
      ELSE Goes([k EXCEPT !.modif = modif.t], Following("fingerprint"), imgs, tr)

\* The image NewImage returns (store.go:1250-1255).
BuiltImage(c, k) ==
  [Name |-> imageName(c), ChecktypeName |-> name(c),
   Manifest |-> ParseManifest(k.content).manifest, LastModified |-> 0]

\* The engine asked again after it rejected the build.
AtEngineRetries(c, k, imgs, tr, text) ==
  LET after == WithImage(imgs, imageName(c),
                         NewLabels(name(c), k.content, Format(k.modif)))
  IN  IF ~k.env.engine THEN Fails(k, "engine", 2, 1, imgs, tr)
      ELSE IF Checktype(BuiltImage(c, k)).err THEN Fails(k, "checktype", 1, 1, after, tr)
      ELSE Returns(k, FALSE, "rebuilt", 1, 1, Checktype(BuiltImage(c, k)).ct, after, tr)

\* NewImage, dockerutil.BuildImage with the three labels (store.go:
\* 1239-1248), and the descriptor of the image built (1250-1255,
\* 1362-1366).  An engine that rejects the build leaves its images alone.
AtEngine(c, k, imgs, tr, text) ==
  LET after == WithImage(imgs, imageName(c),
                         NewLabels(name(c), k.content, Format(k.modif)))
  IN  IF ~k.env.engine THEN Fails(k, "engine", 1, 1, imgs, tr)
      ELSE IF Checktype(BuiltImage(c, k)).err THEN Fails(k, "checktype", 1, 1, after, tr)
      ELSE Returns(k, FALSE, "rebuilt", 1, 1, Checktype(BuiltImage(c, k)).ct, after, tr)

\* The statement the call k of Build on the directory c is at, run on the
\* engine's images, the directory's files and the manifest file's text as
\* they are now.
Statement(c, k, imgs, tr, text) ==
  CASE k.pc = "client" -> AtClient(c, k, imgs, tr, text)
    [] k.pc = "inspect" -> AtInspect(c, k, imgs, tr, text)
    [] k.pc = "walk" -> AtWalk(c, k, imgs, tr, text)
    [] k.pc = "reuse" -> AtReuse(c, k, imgs, tr, text)
    [] k.pc = "compile" -> AtCompile(c, k, imgs, tr, text)
    [] k.pc = "manifest" -> AtManifest(c, k, imgs, tr, text)
    [] k.pc = "archive" -> AtArchive(c, k, imgs, tr, text)
    [] k.pc = "fingerprint" -> AtFingerprint(c, k, imgs, tr, text)
    [] k.pc = "engine" -> AtEngine(c, k, imgs, tr, text)

\* The call run to its return with nothing written by others meanwhile.
RECURSIVE Run(_, _, _, _, _)
Run(c, k, imgs, tr, text) ==
  LET m == Statement(c, k, imgs, tr, text)
  IN  IF m.done THEN m ELSE Run(c, m.call, m.images, m.tree, text)

\* Code.Build when no other process writes the directory or the engine
\* during the call (store.go:1334-1367): what the call returns and the
\* state it leaves.
Build(c, imgs, tree, text, env, now) ==
  Run(c, NewCall(env, now, imgs, tree, text), imgs, tree, text)

\* The statements a Build call can return from, by path.
HitSteps == {"inspect", "hit-checktype", "hit"}
RebuildSteps ==
  {"compile", "manifest", "archive", "fingerprint", "engine", "checktype", "rebuilt"}

\* What the surroundings answer during one Build call, before any answer
\* is given: each statement of the call gets its answer when it runs.
\* Build consults each answer at most once and returns at the first
\* failure, so a call that has returned holds at most one failing answer.
AllOk ==
  [client |-> TRUE, list1 |-> TRUE, list2 |-> TRUE, walk1 |-> TRUE, walk2 |-> TRUE,
   compile |-> TRUE, read |-> TRUE, tar |-> TRUE, engine |-> TRUE]

\* The times at which go build writes the executable: the start of the
\* last minute of the model, and a time inside it.
BinaryTimes == {MaxMinute * SecondsPerMinute + s : s \in SubMinute}

(***************************************************************************)
(* The state: the engine's images, the source directory (its files' times  *)
(* and the manifest's text), and the record of the operations so far.      *)
(***************************************************************************)
VARIABLES images, tree, manifestText, hist

buildVars == <<images, tree, manifestText, hist>>

(***************************************************************************)
(* The state of the check generator: the catalog and the targets it is     *)
(* called with, what the call returned (the checks and the error flag),    *)
(* the number of calls made, and the next fresh check identifier.          *)
(***************************************************************************)
VARIABLES catalog, targets, checks, genErr, genCalls, nextID

genVars == <<catalog, targets, checks, genErr, genCalls, nextID>>

(***************************************************************************)
(* The state of the job generator: the jobs and the error flag of the last *)
(* call of generateJobs, the number of calls made, and the jobs of every   *)
(* call so far.  The generator's inputs and its checks are those above.    *)
(***************************************************************************)
VARIABLES jobs, jobErr, jobCalls, pastJobs

jobVars == <<jobs, jobErr, jobCalls, pastJobs>>

(***************************************************************************)
(* The state of catalog resolution: the source list NewCatalog is called   *)
(* with, what the call returned, the number of calls that have returned,   *)
(* and the call in progress (the statement it is at and what it has done). *)
(***************************************************************************)
VARIABLES sources, resolved, catCalls, resolving

catVars == <<sources, resolved, catCalls, resolving>>

(***************************************************************************)
(* The state of the fingerprint walk taken alone: the entries of a         *)
(* directory (files and directories, each with its modification time),     *)
(* what lastModified returned for it, and the number of calls made.        *)
(***************************************************************************)
VARIABLES dirEntries, fingerprint, walkCalls

walkVars == <<dirEntries, fingerprint, walkCalls>>

(***************************************************************************)
(* The state of the report store: the maps of the process by address       *)
(* (heap), the address in rs.reports, the addresses Reports has handed to  *)
(* its callers, and the record of the operations so far.                   *)
(***************************************************************************)
VARIABLES heap, rsReports, handed, storeLog

storeVars == <<heap, rsReports, handed, storeLog>>

(***************************************************************************)
(* The callers of the report store when they run concurrently: the holder  *)
(* of rs.mu, each caller's position and locals, and the number of          *)
(* operations begun.                                                       *)
(***************************************************************************)
VARIABLES mu, callers, begun

callerVars == <<mu, callers, begun>>

(***************************************************************************)
(* The state of a run over several source directories: each directory's    *)
(* files and manifest text.                                                *)
(***************************************************************************)
VARIABLES dirs

dirVars == <<dirs>>

(***************************************************************************)
(* The state of gateway resolution: the client's runtime, the IPAM entries *)
(* the engine reports for the network (or its refusal), what the call      *)
(* returned, and the number of calls made.                                 *)
(***************************************************************************)
VARIABLES runtime, ipam, netResult, netCalls

netVars == <<runtime, ipam, netResult, netCalls>>

(***************************************************************************)
(* The state of build output parsing: the body the engine sends, what      *)
(* readDockerOutput returned for it, and the number of calls made.         *)
(***************************************************************************)
VARIABLES stream, outResult, outCalls

outVars == <<stream, outResult, outCalls>>

(***************************************************************************)
(* The maps of the process as they were before the check generator ran     *)
(* with option maps held by address.                                       *)
(***************************************************************************)
VARIABLES heapBefore

mergeVars == <<heapBefore>>

(***************************************************************************)
(* The Build call in progress: the statement it is at, what the            *)
(* surroundings have answered in it, the state it was called in, and what  *)
(* it has read so far.  Where several processes call Build at the same     *)
(* time it holds the calls in progress by number.                          *)
(***************************************************************************)
VARIABLES running

runVars == <<running>>

lateVars == <<dirVars, netVars, outVars, mergeVars, runVars>>

restVars == <<walkVars, storeVars, callerVars, lateVars>>

vars == <<images, tree, manifestText, hist,
          catalog, targets, checks, genErr, genCalls, nextID,
          jobs, jobErr, jobCalls, pastJobs,
          sources, resolved, catCalls, resolving,
          dirEntries, fingerprint, walkCalls,
          heap, rsReports, handed, storeLog,
          mu, callers, begun,
          dirs,
          runtime, ipam, netResult, netCalls,
          stream, outResult, outCalls,
          heapBefore,
          running>>

\* The address that is no map: the nil map.
NilMap == 0

\* lastModified has no input and has not been called on its own.
WalkIdle ==
  /\ dirEntries = <<>>
  /\ fingerprint = <<>>
  /\ walkCalls = 0

\* The report store is not used: rs.reports is nil, no map exists.
StoreIdle ==
  /\ heap = <<>>
  /\ rsReports = NilMap
  /\ handed = <<>>
  /\ storeLog = <<>>

\* The report store has no concurrent caller.
CallersIdle ==
  /\ mu = ""
  /\ callers = <<>>
  /\ begun = 0

\* No run over several directories.
DirsIdle == dirs = <<>>

\* No gateway resolution.
NetIdle ==
  /\ runtime = ""
  /\ ipam = <<>>
  /\ netResult = <<>>
  /\ netCalls = 0

\* No build output to parse.
OutIdle ==
  /\ stream = ""
  /\ outResult = <<>>
  /\ outCalls = 0

\* No generator run over option maps held by address.
MergeIdle == heapBefore = <<>>

\* No Build call is in progress.
RunIdle == running = <<>>

LateIdle == DirsIdle /\ NetIdle /\ OutIdle /\ MergeIdle /\ RunIdle

RestIdle == WalkIdle /\ StoreIdle /\ CallersIdle /\ LateIdle

\* The job generator has not been called.
JobIdle ==
  /\ jobs = <<>>
  /\ jobErr = FALSE
  /\ jobCalls = 0
  /\ pastJobs = <<>>

\* NewCatalog has no input and has not been called.
CatIdle ==
  /\ sources = <<>>
  /\ resolved = <<>>
  /\ catCalls = 0
  /\ resolving = <<>>

\* The check generator has no input and has not been called.
GenIdle ==
  /\ catalog = <<>>
  /\ targets = <<>>
  /\ checks = <<>>
  /\ genErr = FALSE
  /\ genCalls = 0
  /\ nextID = 1

\* The build cache is not used: no image, an empty directory, no call.
BuildIdle ==
  /\ images = <<>>
  /\ tree = <<>>
  /\ manifestText = ""
  /\ hist = <<>>

Touches == Cardinality({i \in 1..Len(hist) : hist[i].op = "Touch"})

\* The record of one operation: what it returned and the state around it.
Event(op, env, r, imgsAfter, treeAfter, textAfter) ==
  [op |-> op, env |-> env, err |-> r.err, step |-> r.step, builds |-> r.builds,
   lookups |-> r.lookups, ct |-> r.ct,
   images |-> images, tree |-> tree, text |-> manifestText,
   imagesAfter |-> imgsAfter, treeAfter |-> treeAfter, textAfter |-> textAfter]

NoCall == [err |-> FALSE, step |-> "", builds |-> 0, lookups |-> 0, ct |-> NoChecktype]

\* The engine holds no image under the tag, or one with any labels.
InitImages ==
  {<<>>} \cup {[t \in {imageName(Dir)} |-> l] : l \in LabelMaps}

\* Any directory: the source file is absent or has any time; the manifest
\* is absent or has the earliest time; the repository metadata is absent or
\* newer than every file.
AnyTrees ==
  UNION {{f \in [S -> Times] :
            /\ GitFile \in S => f[GitFile] = Max(Times)
            /\ ManifestPath \in S => \A t \in Times : f[ManifestPath] <= t} :
         S \in SUBSET Paths}

\* A checkout of the source: every file has the checkout's time, except
\* that the repository metadata is newer.
CheckoutTrees ==
  {[p \in Paths |-> IF p = GitFile THEN Max(Times) ELSE t] : t \in Times}

\* The answer of the surroundings a statement of Build waits for.
Asks(pc) ==
  CASE pc = "client" -> "client"
    [] pc = "inspect" -> "list1"
    [] pc = "walk" -> "walk1"
    [] pc = "reuse" -> "list2"
    [] pc = "compile" -> "compile"
    [] pc = "manifest" -> "read"
    [] pc = "archive" -> "tar"
    [] pc = "fingerprint" -> "walk2"
    [] pc = "engine" -> "engine"

\* The call as its statement gets its answer: it works or not (ok), and a
\* go build writes at the time now.
Answered(k, ok, now) ==
  [k EXCEPT !.env = [@ EXCEPT ![Asks(k.pc)] = ok],
            !.now = IF k.pc = "compile" THEN now ELSE @]

\* The record of a Build call that has returned with the move m: what it
\* returned, the state it was called in and the state it returned in, the
\* answers it got and what it read.
BuildEvent(m, textAfter) ==
  [op |-> "Build", env |-> m.call.env, now |-> m.call.now,
   touched |-> m.call.touched,
   err |-> m.err, step |-> m.step, builds |-> m.builds, lookups |-> m.lookups,
   ct |-> m.ct,
   images |-> m.call.images0, tree |-> m.call.tree0, text |-> m.call.text0,
   imagesAfter |-> m.images, treeAfter |-> m.tree, textAfter |-> textAfter,
   content |-> m.call.content, modif |-> m.call.modif, trace |-> m.call.trace]

\* The Build calls made so far, the one in progress included.
Calls ==
  Cardinality({i \in 1..Len(hist) : hist[i].op = "Build"})
    + (IF running = <<>> THEN 0 ELSE 1)

\* The operations so far, the call in progress included.
Ops == Len(hist) + (IF running = <<>> THEN 0 ELSE 1)

\* What a step leaves alone besides the build cache.
runFrame ==
  <<genVars, jobVars, catVars, walkVars, storeVars, callerVars, dirVars, netVars,
    outVars, mergeVars>>

\* Code.Build is called on the directory (store.go:1334); ok bounds the
\* calls.  No other call is in progress.
BeginBuild(ok) ==
  /\ running = <<>>
  /\ ok
  /\ running' = NewCall(AllOk, 0, images, tree, manifestText)
  /\ UNCHANGED <<images, tree, manifestText, hist>>
  /\ UNCHANGED runFrame

\* The call in progress is at the statement pc.
At(pc) == running # <<>> /\ running.pc = pc

\* The call in progress runs the statement it is at, on the engine and the
\* directory as they are now, and goes on or returns.
Take ==
  /\ running # <<>>
  /\ \E ok \in BOOLEAN, now \in BinaryTimes :
       LET m == Statement(Dir, Answered(running, ok, now), images, tree, manifestText)
       IN  /\ images' = m.images
           /\ tree' = m.tree
           /\ IF m.done
              THEN /\ hist' = Append(hist, BuildEvent(m, manifestText))
                   /\ running' = <<>>
              ELSE /\ running' = m.call
                   /\ UNCHANGED hist
  /\ UNCHANGED manifestText
  /\ UNCHANGED runFrame

\* containers.NewDockerdClient (store.go:1336-1339).
StepClient == At("client") /\ Take

\* c.isModified, the label lookup (store.go:1371 via dockerutil.go:138).
StepInspect == At("inspect") /\ Take

\* c.isModified, the walk of the directory (store.go:1380).
StepWalk == At("walk") /\ Take

\* The cache hit (store.go:1345-1352): the second label lookup.
StepReuse == At("reuse") /\ Take

\* goBuildDir (store.go:1356, 1410): the executable is written.
StepCompile == At("compile") /\ Take

\* NewImage, the manifest file read and parsed (store.go:1215-1226).
StepManifest == At("manifest") /\ Take

\* NewImage, buildTarFromDir (store.go:1228-1231).
StepArchive == At("archive") /\ Take

\* NewImage, lastModified (store.go:1233-1237).
StepFingerprint == At("fingerprint") /\ Take

\* NewImage, the engine's build with the three labels, and the descriptor
\* of the image (store.go:1239-1255, 1362-1366).
StepEngine == At("engine") /\ Take

\* The statements of the call in progress.
BuildSteps ==
  \/ StepClient
  \/ StepInspect
  \/ StepWalk
  \/ StepReuse
  \/ StepCompile
  \/ StepManifest
  \/ StepArchive
  \/ StepFingerprint
  \/ StepEngine

\* A modification of the directory by another process; ok bounds the
\* modifications.  It can fall between two statements of a Build call in
\* progress, which it marks.
Modify(ok, treeAfter, textAfter) ==
  /\ ok
  /\ tree' = treeAfter
  /\ manifestText' = textAfter
  /\ hist' = Append(hist, Event("Touch", AllOk, NoCall, images, treeAfter, textAfter))
  /\ running' = IF running = <<>> THEN running ELSE [running EXCEPT !.touched = TRUE]
  /\ UNCHANGED images
  /\ UNCHANGED runFrame

\* A file of the tree other than the manifest is written: its time changes.
TouchFile(ok) ==
  \E p \in (DOMAIN tree) \ {ManifestPath}, t \in Times :
    Modify(ok, [tree EXCEPT ![p] = t], manifestText)

\* The manifest is written (created or replaced).
WriteManifest(ok) ==
  \E text \in ManifestTexts, t \in Times :
    Modify(ok, [p \in DOMAIN tree \cup {ManifestPath} |->
                  IF p = ManifestPath THEN t ELSE tree[p]], text)

\* A file is removed; a removed manifest has no text.
RemoveFile(ok) ==
  \E p \in DOMAIN tree :
    Modify(ok, [q \in (DOMAIN tree) \ {p} |-> tree[q]],
           IF p = ManifestPath THEN "" ELSE manifestText)

\* Another process may write the directory while a call is in progress.
Meanwhile == running # <<>> /\ Touches < MaxTouches

(***************************************************************************)
(* Spec: Build calls on any directory against any engine state.  Build     *)
(* takes no lock and waits for the engine and for go build, so a call is   *)
(* taken statement by statement, and another process can write the         *)
(* directory between two of them: the walk of isModified, go build, the    *)
(* read of the manifest, the archive, the walk of NewImage and the         *)
(* engine's build each see the directory as it is at their time.           *)
(***************************************************************************)
Init ==
  /\ images \in InitImages
  /\ tree \in AnyTrees
  /\ manifestText \in (IF ManifestPath \in DOMAIN tree THEN ManifestTexts ELSE {""})
  /\ hist = <<>>
  /\ GenIdle
  /\ JobIdle
  /\ CatIdle
  /\ RestIdle

Next ==
  \/ BeginBuild(Calls < MaxCalls)
  \/ BuildSteps
  \/ TouchFile(Meanwhile)
  \/ WriteManifest(Meanwhile)
  \/ RemoveFile(Meanwhile)

Spec == Init /\ [][Next]_vars

(***************************************************************************)
(* SpecRuns: runs of Build calls and directory modifications that start    *)
(* from a checkout with a well-formed manifest and an engine without an    *)
(* image for the checktype.  A modification can fall before, between or    *)
(* inside the calls.                                                       *)
(***************************************************************************)
InitRuns ==
  /\ images = <<>>
  /\ tree \in CheckoutTrees
  /\ manifestText = GoodManifest
  /\ hist = <<>>
  /\ GenIdle
  /\ JobIdle
  /\ CatIdle
  /\ RestIdle

\* One more operation fits in the run.
Room == Ops < MaxOps

NextRuns ==
  \/ BeginBuild(Room)
  \/ BuildSteps
  \/ TouchFile(Room /\ Touches < MaxTouches)
  \/ WriteManifest(Room /\ Touches < MaxTouches)
  \/ RemoveFile(Room /\ Touches < MaxTouches)

SpecRuns == InitRuns /\ [][NextRuns]_vars

\* A call during which no other process wrote the directory returns what
\* Build gives for the state it was called in and the answers it got.
RunsAgreeWithBuild ==
  \A i \in 1..Len(hist) :
    (hist[i].op = "Build" /\ ~hist[i].touched)
    => LET e == hist[i]
           r == Build(Dir, e.images, e.tree, e.text, e.env, e.now)
       IN  /\ e.err = r.err /\ e.step = r.step /\ e.builds = r.builds
           /\ e.lookups = r.lookups /\ e.ct = r.ct
           /\ e.imagesAfter = r.images /\ e.treeAfter = r.tree
           /\ e.trace = r.call.trace

\* A call decided to rebuild and a file was written before the walk of
\* NewImage: the label names the time of the file written meanwhile.
RunsTornRead ==
  \E i \in 1..Len(hist) :
    /\ hist[i].op = "Build" /\ hist[i].touched /\ hist[i].step = "rebuilt"
    /\ hist[i].imagesAfter[imageName(Dir)][lastModifiedTimeLabel]
         # Build(Dir, hist[i].images, hist[i].tree, hist[i].text, hist[i].env,
                 hist[i].now).images[imageName(Dir)][lastModifiedTimeLabel]

(***************************************************************************)
(* The claims about the build cache.                                       *)
(***************************************************************************)
Tag == imageName(Dir)

\* The statements of a rebuild in the order NewImage and Build run them.
RebuildOrder == <<"compile", "manifest", "archive", "fingerprint", "engine">>

\* The last n statements a call ran.
LastOf(trace, n) ==
  IF Len(trace) < n THEN <<>> ELSE SubSeq(trace, Len(trace) - n + 1, Len(trace))

\* The position of a statement in the statements a call ran, 0 when the
\* call did not run it.
PlaceOf(trace, pc) ==
  IF \E i \in 1..Len(trace) : trace[i] = pc
  THEN CHOOSE i \in 1..Len(trace) : trace[i] = pc
  ELSE 0

\* The Build calls recorded so far.
BuildEvents == {hist[i] : i \in {j \in 1..Len(hist) : hist[j].op = "Build"}}

\* The labels of the checktype's image in an engine state.
LabelsIn(imgs) == IF Tag \in DOMAIN imgs THEN imgs[Tag] ELSE NoLabels

\* The directory's fingerprint when the walk works.
Fingerprint(tr) == lastModified(tr, TRUE)

\* C1: two consecutive successful Build calls, the first on an engine with
\* no image for the checktype and no file modified during or between them
\* (the only write is the executable go build leaves), issue one
\* engine build call in total, and the second issues none.
C1_CacheIdempotence ==
  \A i \in 1..(Len(hist) - 1) :
    ( /\ hist[i].op = "Build" /\ hist[i + 1].op = "Build"
      /\ ~hist[i].touched /\ ~hist[i + 1].touched
      /\ ~hist[i].err /\ ~hist[i + 1].err
      /\ Tag \notin DOMAIN hist[i].images )
    => /\ hist[i].builds + hist[i + 1].builds = 1
       /\ hist[i + 1].builds = 0

\* C2: after a successful Build, a modification that changes the
\* directory's fingerprint makes the next (successful) Build issue exactly
\* one engine build call; no modification falls inside either call.
C2_Invalidation ==
  \A i \in 1..(Len(hist) - 2) :
    ( /\ hist[i].op = "Build" /\ ~hist[i].err
      /\ hist[i + 1].op = "Touch"
      /\ ~Fingerprint(hist[i + 1].tree).err
      /\ ~Fingerprint(hist[i + 1].treeAfter).err
      /\ Fingerprint(hist[i + 1].tree).t # Fingerprint(hist[i + 1].treeAfter).t
      /\ hist[i + 2].op = "Build" /\ ~hist[i + 2].err
      /\ ~hist[i].touched /\ ~hist[i + 2].touched )
    => hist[i + 2].builds = 1

\* C3: with a valid image (label text L) and a directory time d, no
\* other process writing the directory during the call, Build treats the
\* directory as unchanged (takes the cache hit) if and only if the
\* serialized form of d equals L.
C3_SerializedEquality ==
  \A e \in BuildEvents :
    ( /\ e.env.client /\ e.env.list1 /\ e.env.walk1
      /\ ~e.touched
      /\ InspectImage(e.images, Tag, TRUE).err = ""
      /\ ~Fingerprint(e.tree).err )
    => ( e.step \in HitSteps
         <=> Format(Fingerprint(e.tree).t) = LabelsIn(e.images)[lastModifiedTimeLabel] )

\* The engine has no image for the checktype, or the image lacks a label or
\* carries a time or manifest text that does not parse.
NotAPriorBuild(imgs) ==
  \/ Tag \notin DOMAIN imgs
  \/ lastModifiedTimeLabel \notin DOMAIN imgs[Tag]
  \/ imgs[Tag][lastModifiedTimeLabel] \notin {Format(t) : t \in Times}
  \/ checktypeNameLabel \notin DOMAIN imgs[Tag]
  \/ checktypeManifest \notin DOMAIN imgs[Tag]
  \/ imgs[Tag][checktypeManifest] = MalformedManifest

\* C4: when the client is made, the engine answers the lookup and it has
\* no image for the checktype, or one whose labels are missing or
\* unparseable, Build does not return the lookup error: it takes the
\* rebuild path, and a rebuild whose steps all work issues one engine build
\* call that writes the three labels.
C4_NeverBuiltRebuilds ==
  \A e \in BuildEvents :
    (e.env.client /\ e.env.list1 /\ NotAPriorBuild(e.images))
    => /\ e.step \in RebuildSteps
       /\ e.lookups = 1
       /\ (e.step \in {"rebuilt", "checktype"}
           => e.builds = 1 /\ DOMAIN LabelsIn(e.imagesAfter) = LabelKeys)

C4_Witness ==
  \E e \in BuildEvents :
    /\ Tag \in DOMAIN e.images
    /\ DOMAIN e.images[Tag] = {lastModifiedTimeLabel, checktypeManifest}
    /\ e.step = "rebuilt" /\ ~e.err /\ e.builds = 1

\* The image for the checktype carries some of the three labels, not all.
PartialLabels(imgs) ==
  Tag \in DOMAIN imgs /\ DOMAIN imgs[Tag] # {} /\ DOMAIN imgs[Tag] # LabelKeys

\* C5 as stated: an image with some but not all of the three labels makes
\* Build return an error instead of rebuilding.
C5_PartialLabelsAreAnError ==
  \A e \in BuildEvents :
    (e.env.list1 /\ PartialLabels(e.images))
    => e.err /\ e.step \notin RebuildSteps

\* C5 as amended: an image with some but not all of the three labels is no
\* error for Build; like an image with none it is taken as never built and
\* Build rebuilds.  Only an image with all three labels is taken as a prior
\* build (the cache-hit path).
C5_PartialLabelsRebuild ==
  \A e \in BuildEvents :
    /\ (e.env.client /\ e.env.list1 /\ PartialLabels(e.images))
         => e.step \in RebuildSteps
    /\ e.step \in HitSteps => DOMAIN LabelsIn(e.images) = LabelKeys

C5_Witness ==
  \E e \in BuildEvents :
    /\ PartialLabels(e.images)
    /\ checktypeNameLabel \notin DOMAIN e.images[Tag]
    /\ e.step = "rebuilt" /\ ~e.err
    /\ DOMAIN LabelsIn(e.imagesAfter) = LabelKeys

\* C6 as stated: a Build that returns the cached image's descriptor has
\* issued exactly one label lookup and no build call.
C6_HitOneLookup ==
  \A e \in BuildEvents :
    e.step = "hit" => e.lookups = 1 /\ e.builds = 0

\* C6 as amended: a Build that returns the cached image's descriptor has
\* issued exactly two label lookups (one in isModified, one in Build) and
\* no build call, has left the engine's images as they were, and returns
\* the descriptor made from the image's labels; it has written nothing to
\* the directory, which is as it was unless another process wrote it.
C6_HitTwoLookups ==
  \A e \in BuildEvents :
    e.step = "hit"
    => /\ e.lookups = 2 /\ e.builds = 0
       /\ e.imagesAfter = e.images
       /\ ~e.err
       /\ e.ct = Checktype([Name |-> Tag,
                             ChecktypeName |-> e.images[Tag][checktypeNameLabel],
                             Manifest |-> ParseManifest(e.images[Tag][checktypeManifest]).manifest,
                             LastModified |-> 0]).ct
       /\ ~e.touched => e.treeAfter = e.tree
       /\ e.trace = <<"client", "inspect", "walk", "reuse">>

C6_Witness ==
  \E e \in BuildEvents : e.step = "hit" /\ e.lookups = 2 /\ e.ct.Image = Tag

\* The steps of a rebuild up to the engine's build call.
FailingRebuildSteps == {"compile", "manifest", "archive", "fingerprint", "engine"}

\* C7: a Build that fails at a step of the rebuild (compile, manifest,
\* archive, fingerprint, engine rejection) returns an error and no
\* descriptor and leaves the engine's labels for the image as they were.
C7_FailedRebuildLeavesLabels ==
  \A e \in BuildEvents :
    /\ e.step \in FailingRebuildSteps
       => /\ e.err
          /\ e.ct = NoChecktype
          /\ e.imagesAfter = e.images
    /\ (e.step \in RebuildSteps /\ ~e.env.compile) => e.step = "compile"
    /\ (e.step \in RebuildSteps /\ e.env.compile /\ ~e.env.tar)
       => e.step \in {"manifest", "archive"}
    /\ (e.step \in RebuildSteps /\ e.env.compile /\ ~e.env.engine)
       => e.step \in {"manifest", "engine"}

C7_Witness ==
  \E e \in BuildEvents :
    /\ e.step = "archive" /\ e.err
    /\ PartialLabels(e.images)
    /\ e.imagesAfter = e.images

\* The manifest file is absent from the directory or its text is malformed.
BadManifest(tr, text) ==
  ManifestPath \notin DOMAIN tr \/ ParseManifest(text).err

\* C8 as stated: Build fails whenever the manifest file is absent or
\* malformed, on every path (no other process writing the directory
\* during the call).
C8_BadManifestAlwaysFails ==
  \A e \in BuildEvents : (BadManifest(e.tree, e.text) /\ ~e.touched) => e.err

\* C8 as amended: Build fails whenever the manifest file is absent or
\* malformed and Build takes the rebuild path; on the cache-hit path the
\* manifest file is not read.  The manifest is the one in the directory
\* when Build reads it: when no other process writes the directory during
\* the call it is the one of the call's start, and every call that goes
\* past the read has read a well-formed manifest.
C8_BadManifestFailsRebuild ==
  \A e \in BuildEvents :
    /\ (BadManifest(e.tree, e.text) /\ ~e.touched /\ e.step \in RebuildSteps)
       => e.err /\ e.step \in {"compile", "manifest"} /\ e.builds = 0
    /\ e.step \in {"archive", "fingerprint", "engine", "checktype", "rebuilt"}
       => ~ParseManifest(e.content).err
    /\ e.step \in HitSteps => PlaceOf(e.trace, "manifest") = 0

C8_Witness ==
  \E e \in BuildEvents :
    /\ ManifestPath \in DOMAIN e.tree /\ e.text = MalformedManifest
    /\ e.step = "manifest" /\ e.err

\* C29: one Build call issues at most one engine build call; when the
\* compile step or the archive step fails it returns the error with no
\* engine build call issued, and when the engine rejects the build it
\* returns the error after that one call; a failed call never ends in a
\* descriptor.
C29_NoInternalRetry ==
  \A e \in BuildEvents :
    /\ e.builds <= 1
    /\ e.step \in {"compile", "archive"} => (e.err /\ e.builds = 0)
    /\ e.step = "engine" => (e.err /\ e.builds = 1)
    /\ (e.step \in RebuildSteps /\ ~e.env.compile) => (e.err /\ e.builds = 0)
    /\ (e.step \in {"engine", "built", "rebuilt", "checktype"} /\ ~e.env.engine)
       => (e.err /\ e.step = "engine")
    /\ e.err => e.ct = NoChecktype

C29_Witness ==
  \E e \in BuildEvents :
    /\ e.step = "engine" /\ ~e.env.engine
    /\ e.err /\ e.builds = 1 /\ e.lookups = 1
    /\ e.imagesAfter = e.images

\* C32: Label round-trip.  Straight after a successful rebuild the engine's
\* image for the checktype carries the three labels: the fingerprint of the
\* directory in its text form, the checktype name, and the text of the
\* manifest file as it is; and InspectImage on that image succeeds with the
\* same checktype name, the manifest of that text, and LastModified equal
\* to the parse of the fingerprint text written.  The fingerprint and the
\* text are those Build read; they are those of the directory as the call
\* leaves it when no other process wrote it during the call.
C32_LabelRoundTrip ==
  \A e \in BuildEvents :
    e.step = "rebuilt"
    => LET labels == LabelsIn(e.imagesAfter)
           r == InspectImage(e.imagesAfter, Tag, TRUE)
       IN  /\ ~e.err /\ e.builds = 1
           /\ Tag \in DOMAIN e.imagesAfter
           /\ DOMAIN labels = LabelKeys
           /\ labels[lastModifiedTimeLabel] = Format(e.modif)
           /\ labels[checktypeNameLabel] = name(Dir)
           /\ labels[checktypeManifest] = e.content
           /\ ~e.touched
                => /\ e.modif = Fingerprint(e.treeAfter).t
                   /\ e.content = e.text
           /\ r.err = ""
           /\ r.image.Name = Tag
           /\ r.image.ChecktypeName = name(Dir)
           /\ r.image.ChecktypeName = e.ct.Name
           /\ r.image.Manifest = ParseManifest(e.content).manifest
           /\ r.image.LastModified = Parse(labels[lastModifiedTimeLabel]).t

\* A rebuild over an image with an unparseable fingerprint label, of a
\* directory whose newest file is not at the start of a minute: the label
\* written names the minute, and its parse is earlier than the file.
C32_Witness ==
  \E e \in BuildEvents :
    /\ e.step = "rebuilt"
    /\ ~e.touched
    /\ Tag \in DOMAIN e.images
    /\ lastModifiedTimeLabel \in DOMAIN e.images[Tag]
    /\ e.images[Tag][lastModifiedTimeLabel] = BadTimeText
    /\ DOMAIN LabelsIn(e.imagesAfter) = LabelKeys
    /\ InspectImage(e.imagesAfter, Tag, TRUE).err = ""
    /\ InspectImage(e.imagesAfter, Tag, TRUE).image.LastModified
         < Fingerprint(e.treeAfter).t

(***************************************************************************)
(* The check generator.  generateChecks is modelled from its description   *)
(* and its tests (store.go:351-801); checktypes.Accepts is in the source.  *)
(***************************************************************************)
Range(seq) == {seq[i] : i \in 1..Len(seq)}

\* Accepts with the scan stopped after the first accepted type.
AcceptsFirstOnly(ct, at) ==
  Len(ct.Assets) > 0 /\ ct.Assets[1] = at

\* checktypes.Accepts: a scan of the checktype's asset type list.
Accepts(ct, at) ==
  \E i \in 1..Len(ct.Assets) : ct.Assets[i] = at

\* The merge with the checktype's defaults winning.
MergeOptionsDefaultsWin(defaults, overrides) ==
  [k \in DOMAIN defaults \cup DOMAIN overrides |->
     IF k \in DOMAIN defaults THEN defaults[k] ELSE overrides[k]]

\* The effective options: a copy of the checktype's defaults with every key
\* of the target's options set in it.
MergeOptions(defaults, overrides) ==
  [k \in DOMAIN defaults \cup DOMAIN overrides |->
     IF k \in DOMAIN overrides THEN overrides[k] ELSE defaults[k]]

\* The targets with every repeated entry kept.
DedupNothing(ts) == ts

\* The targets without the later entries that repeat an earlier entry's
\* identifier and asset type.
RECURSIVE Dedup(_)
Dedup(ts) ==
  IF ts = <<>> THEN <<>>
  ELSE LET front == Dedup(SubSeq(ts, 1, Len(ts) - 1))
           last == ts[Len(ts)]
       IN  IF \E i \in 1..Len(front) :
                /\ front[i].Identifier = last.Identifier
                /\ front[i].AssetType = last.AssetType
           THEN front
           ELSE Append(front, last)

\* A set of strings as a sequence, in one fixed order.
RECURSIVE SeqOf(_)
SeqOf(S) ==
  IF S = {} THEN <<>>
  ELSE LET x == CHOOSE y \in S : TRUE IN <<x>> \o SeqOf(S \ {x})

\* The checks of one target: one per checktype that accepts its asset
\* type, numbered from id on.  names are the catalog's keys still to visit.
RECURSIVE ChecksOfTarget(_, _, _, _)
ChecksOfTarget(cat, names, t, id) ==
  IF names = <<>> THEN <<>>
  ELSE LET ct == cat[Head(names)]
       IN  IF Accepts(ct, t.AssetType)
           THEN <<[id |-> id, checktype |-> ct, target |-> t,
                   options |-> MergeOptions(ct.Options, t.Options)]>>
                \o ChecksOfTarget(cat, Tail(names), t, id + 1)
           ELSE ChecksOfTarget(cat, Tail(names), t, id)

RECURSIVE ChecksOfTargets(_, _, _)
ChecksOfTargets(cat, ts, id) ==
  IF ts = <<>> THEN <<>>
  ELSE LET first == ChecksOfTarget(cat, SeqOf(DOMAIN cat), Head(ts), id)
       IN  first \o ChecksOfTargets(cat, Tail(ts), id + Len(first))

\* generateChecks with a target of no valid asset type skipped.
generateChecksSkipInvalid(cat, ts, id) ==
  [err |-> FALSE,
   checks |-> ChecksOfTargets(cat, Dedup(SelectSeq(ts, LAMBDA t : IsValid(t.AssetType))), id)]

\* generateChecks with an empty result reported as an error.
generateChecksEmptyIsError(cat, ts, id) ==
  IF \E i \in 1..Len(ts) : ~IsValid(ts[i].AssetType)
  THEN [err |-> TRUE, checks |-> <<>>]
  ELSE [err |-> ChecksOfTargets(cat, Dedup(ts), id) = <<>>,
        checks |-> ChecksOfTargets(cat, Dedup(ts), id)]

\* generateChecks(checktypes, targets): an error and no check when a target
\* has no valid asset type; else the checks of the deduplicated targets.
\* The order of the result is not part of the contract.
generateChecks(cat, ts, id) ==
  IF \E i \in 1..Len(ts) : ~IsValid(ts[i].AssetType)
  THEN [err |-> TRUE, checks |-> <<>>]
  ELSE [err |-> FALSE, checks |-> ChecksOfTargets(cat, Dedup(ts), id)]

\* The inputs of the model.
CtNames == {"checktype1", "checktype2"}
AssetLists ==
  {<<>>, <<"DomainName">>, <<"Hostname">>, <<"DomainName", "Hostname">>,
   <<"Hostname", "DomainName">>}
DefaultOptions ==
  {<<>>,
   [k \in {"option1"} |-> "checktype value"],
   [k \in {"option1", "option2"} |-> "checktype value"]}
TargetOptions ==
  {<<>>,
   [k \in {"option2"} |-> "target value"],
   [k \in {"option2", "option3"} |-> "target value"]}
TargetAssetTypes == {"DomainName", "Hostname", "", "InvalidAssetType"}

ChecktypeOf(n, assets, options) ==
  [Name |-> n, Image |-> "namespace/" \o n \o ":tag", Assets |-> assets,
   Options |-> options]

Catalogs ==
  UNION {{c \in [S -> UNION {{ChecktypeOf(n, a, o) : a \in AssetLists, o \in DefaultOptions} :
                              n \in S}] :
             \A n \in S : c[n].Name = n} :
         S \in SUBSET CtNames}

Targets ==
  [Identifier : {"example.com"}, AssetType : TargetAssetTypes, Options : TargetOptions]

TargetLists == UNION {[1..n -> Targets] : n \in 0..MaxTargets}

InitGen ==
  /\ BuildIdle
  /\ JobIdle
  /\ CatIdle
  /\ RestIdle
  /\ catalog \in Catalogs
  /\ targets \in TargetLists
  /\ checks = <<>>
  /\ genErr = FALSE
  /\ genCalls = 0
  /\ nextID = 1

\* One call of generateChecks with the catalog and the targets.
GenerateChecks ==
  /\ genCalls < MaxGenCalls
  /\ LET r == generateChecks(catalog, targets, nextID)
     IN  /\ checks' = r.checks
         /\ genErr' = r.err
         /\ nextID' = nextID + Len(r.checks)
  /\ genCalls' = genCalls + 1
  /\ UNCHANGED <<catalog, targets>>
  /\ UNCHANGED buildVars
  /\ UNCHANGED <<jobVars, catVars>>
  /\ UNCHANGED restVars

NextGen == GenerateChecks

SpecGen == InitGen /\ [][NextGen]_vars

(***************************************************************************)
(* The claims about the check generator.                                   *)
(***************************************************************************)
\* The result has a check of the checktype named n for the target t.
HasCheck(n, t) ==
  \E k \in 1..Len(checks) :
    /\ checks[k].checktype = catalog[n]
    /\ checks[k].target.Identifier = t.Identifier
    /\ checks[k].target.AssetType = t.AssetType

AllTargetsValid == \A i \in 1..Len(targets) : targets[i].AssetType \in AssetTypeNames

\* C9: when every target has a valid asset type, generateChecks succeeds
\* and returns a check for a (checktype, target) pair if and only if the
\* target's asset type is one of the checktype's accepted asset types; it
\* returns no check of anything else.
C9_CompatibilityFilter ==
  (genCalls > 0 /\ AllTargetsValid)
  => /\ ~genErr
     /\ \A n \in DOMAIN catalog : \A i \in 1..Len(targets) :
          HasCheck(n, targets[i]) <=> targets[i].AssetType \in Range(catalog[n].Assets)
     /\ \A k \in 1..Len(checks) :
          /\ checks[k].checktype.Name \in DOMAIN catalog
          /\ checks[k].checktype = catalog[checks[k].checktype.Name]
          /\ \E i \in 1..Len(targets) : checks[k].target = targets[i]

C9_Witness ==
  /\ genCalls > 0 /\ ~genErr
  /\ DOMAIN catalog = CtNames
  /\ Len(targets) = 2 /\ targets[1].AssetType # targets[2].AssetType
  /\ catalog["checktype1"].Assets = <<"DomainName", "Hostname">>
  /\ catalog["checktype2"].Assets = <<"Hostname">>
  /\ Len(checks) = 3

\* C10: the options of every check have the keys of the checktype's
\* defaults and of the target's overrides, the target's value for every
\* key of the target, and the checktype's value for every other key.
C10_OptionMergePrecedence ==
  \A k \in 1..Len(checks) :
    LET D == checks[k].checktype.Options
        O == checks[k].target.Options
        E == checks[k].options
    IN  /\ DOMAIN E = DOMAIN D \cup DOMAIN O
        /\ \A key \in DOMAIN O : E[key] = O[key]
        /\ \A key \in DOMAIN D \ DOMAIN O : E[key] = D[key]

C10_Witness ==
  \E k \in 1..Len(checks) :
    /\ DOMAIN checks[k].checktype.Options = {"option1", "option2"}
    /\ DOMAIN checks[k].target.Options = {"option2", "option3"}
    /\ checks[k].options =
         [key \in {"option1", "option2", "option3"} |->
            IF key = "option1" THEN "checktype value" ELSE "target value"]
\* The checks of the result for a checktype name, a target identifier and
\* an asset type.
ChecksFor(n, ident, at) ==
  {k \in 1..Len(checks) :
     /\ checks[k].checktype.Name = n
     /\ checks[k].target.Identifier = ident
     /\ checks[k].target.AssetType = at}

\* C11: a successful generateChecks returns at most one check per
\* (checktype name, target identifier, target asset type): for every target
\* entry, however often the list repeats its identifier and asset type,
\* exactly one check per checktype that accepts it and none per checktype
\* that does not; entries with one identifier and different asset types
\* each have their own checks.
C11_Deduplication ==
  (genCalls > 0 /\ ~genErr)
  => /\ \A n \in DOMAIN catalog : \A i \in 1..Len(targets) :
          Cardinality(ChecksFor(n, targets[i].Identifier, targets[i].AssetType))
            = (IF Accepts(catalog[n], targets[i].AssetType) THEN 1 ELSE 0)
     /\ \A k1, k2 \in 1..Len(checks) :
          ( /\ checks[k1].checktype.Name = checks[k2].checktype.Name
            /\ checks[k1].target.Identifier = checks[k2].target.Identifier
            /\ checks[k1].target.AssetType = checks[k2].target.AssetType )
          => k1 = k2

C11_Witness ==
  /\ genCalls > 0 /\ ~genErr
  /\ Len(targets) = 2
  /\ targets[1].Identifier = targets[2].Identifier
  /\ targets[1].AssetType = targets[2].AssetType
  /\ DOMAIN catalog = CtNames
  /\ \A n \in CtNames : Accepts(catalog[n], targets[1].AssetType)
  /\ Len(checks) = 2
  /\ checks[1].checktype.Name # checks[2].checktype.Name

\* Some target of the list has an empty asset type or one outside the
\* enumeration.
SomeTargetInvalid == \E i \in 1..Len(targets) : ~IsValid(targets[i].AssetType)

\* C12: when some target of the list has an empty asset type or one
\* outside the enumeration, generateChecks returns an error and no check,
\* whatever the other targets and the catalog are; and an error never
\* comes with checks.
C12_FailFastOnAssetType ==
  /\ (genCalls > 0 /\ SomeTargetInvalid) => (genErr /\ checks = <<>>)
  /\ genErr => checks = <<>>

C12_Witness ==
  /\ genCalls > 0 /\ genErr /\ checks = <<>>
  /\ Len(targets) = 2
  /\ targets[1].AssetType = "DomainName"
  /\ targets[2].AssetType = ""
  /\ \E n \in DOMAIN catalog : Accepts(catalog[n], targets[1].AssetType)
  /\ \A n \in DOMAIN catalog : ~Accepts(catalog[n], targets[2].AssetType)

\* No checktype of the catalog accepts the asset type of any target.
NoCompatiblePair ==
  \A n \in DOMAIN catalog : \A i \in 1..Len(targets) :
    ~Accepts(catalog[n], targets[i].AssetType)

\* C13: when every target has a valid asset type, generateChecks returns
\* no error, also when no checktype accepts any target, when the catalog is
\* empty and when the target list is empty; the result is then empty.
C13_IncompatibilityIsNoError ==
  (genCalls > 0 /\ AllTargetsValid)
  => /\ ~genErr
     /\ NoCompatiblePair => checks = <<>>
     /\ (DOMAIN catalog = {} \/ targets = <<>>) => checks = <<>>

C13_Witness ==
  /\ genCalls > 0 /\ ~genErr /\ checks = <<>>
  /\ AllTargetsValid /\ NoCompatiblePair
  /\ Len(targets) = 2
  /\ DOMAIN catalog = CtNames
  /\ \A n \in CtNames : catalog[n].Assets # <<>>

(***************************************************************************)
(* The job generator.  generateJobs is modelled from its description and   *)
(* its tests (store.go:803-959): it calls generateChecks and projects each *)
(* check into a job.                                                       *)
(***************************************************************************)
\* Calls of the job generator per run.
MaxJobCalls == 2

\* An entry of a checktype's required variable list: a string, or a value
\* of another type (shown by its text).
StrVar(v) == [isString |-> TRUE, v |-> v]
OtherVar(v) == [isString |-> FALSE, v |-> v]

\* The option names of the model, in the order of encoding/json (sorted).
SortedKeys == <<"option1", "option2", "option3">>

\* The members of a JSON object for the keys the options have, in order.
RECURSIVE MarshalEntries(_, _)
MarshalEntries(opts, keys) ==
  IF keys = <<>> THEN ""
  ELSE LET k == Head(keys)
           rest == MarshalEntries(opts, Tail(keys))
       IN  IF k \notin DOMAIN opts THEN rest
           ELSE "\"" \o k \o "\":\"" \o opts[k] \o "\""
                \o (IF rest = "" THEN "" ELSE "," \o rest)

\* The JSON text with an option set of no entry encoded as a nil map is.
MarshalNullForEmpty(opts) ==
  IF DOMAIN opts = {} THEN "null"
  ELSE "{" \o MarshalEntries(opts, SortedKeys) \o "}"

\* json.Marshal of the effective options (a map that is never nil).
Marshal(opts) == "{" \o MarshalEntries(opts, SortedKeys) \o "}"

\* The required variables of a checktype as strings: an error when an
\* entry is no string.
RequiredVarsOf(ct) ==
  [err |-> \E i \in 1..Len(ct.RequiredVars) : ~ct.RequiredVars[i].isString,
   vars |-> [i \in 1..Len(ct.RequiredVars) |-> ct.RequiredVars[i].v]]

\* The job with the asset type taken from the checktype's list.
JobOfAcceptedAssetType(check) ==
  [CheckID |-> check.id,
   Image |-> check.checktype.Image,
   Target |-> check.target.Identifier,
   AssetType |-> check.checktype.Assets[1],
   Options |-> Marshal(check.options),
   RequiredVars |-> RequiredVarsOf(check.checktype).vars]

\* The job of a check.
JobOf(check) ==
  [CheckID |-> check.id,
   Image |-> check.checktype.Image,
   Target |-> check.target.Identifier,
   AssetType |-> check.target.AssetType,
   Options |-> Marshal(check.options),
   RequiredVars |-> RequiredVarsOf(check.checktype).vars]

\* generateJobs with the checks of a malformed checktype left out.
generateJobsSkipMalformed(cat, ts, id) ==
  LET r == generateChecks(cat, ts, id)
      good == SelectSeq(r.checks, LAMBDA c : ~RequiredVarsOf(c.checktype).err)
  IN  IF r.err THEN [err |-> TRUE, jobs |-> <<>>, checks |-> <<>>, checksErr |-> TRUE]
      ELSE [err |-> Len(good) # Len(r.checks),
            jobs |-> [k \in 1..Len(good) |-> JobOf(good[k])],
            checks |-> r.checks, checksErr |-> FALSE]

\* generateJobs with the identifiers of every call numbered alike.
generateJobsSameIDs(cat, ts, id) ==
  LET r == generateChecks(cat, ts, 1)
  IN  IF r.err THEN [err |-> TRUE, jobs |-> <<>>, checks |-> <<>>, checksErr |-> TRUE]
      ELSE IF \E k \in 1..Len(r.checks) : RequiredVarsOf(r.checks[k].checktype).err
        THEN [err |-> TRUE, jobs |-> <<>>, checks |-> r.checks, checksErr |-> FALSE]
      ELSE [err |-> FALSE,
            jobs |-> [k \in 1..Len(r.checks) |-> JobOf(r.checks[k])],
            checks |-> r.checks, checksErr |-> FALSE]

\* generateJobs(checktypes, targets): the error of generateChecks, or an
\* error when a check's checktype has a required variable that is no
\* string, both with no job; else one job per check.  checks are the checks
\* the call made, checksErr the error of its call of generateChecks.
generateJobs(cat, ts, id) ==
  LET r == generateChecks(cat, ts, id)
  IN  IF r.err THEN [err |-> TRUE, jobs |-> <<>>, checks |-> <<>>, checksErr |-> TRUE]
      ELSE IF \E k \in 1..Len(r.checks) : RequiredVarsOf(r.checks[k].checktype).err
        THEN [err |-> TRUE, jobs |-> <<>>, checks |-> r.checks, checksErr |-> FALSE]
      ELSE [err |-> FALSE,
            jobs |-> [k \in 1..Len(r.checks) |-> JobOf(r.checks[k])],
            checks |-> r.checks, checksErr |-> FALSE]

\* The inputs of the model.
RequiredVarLists ==
  {<<>>,
   <<StrVar("REQUIRED_VAR_1"), StrVar("REQUIRED_VAR_2")>>,
   <<OtherVar("1"), OtherVar("2")>>,
   <<StrVar("REQUIRED_VAR_1"), OtherVar("2")>>}
JobAssetLists == {<<"DomainName">>, <<"Hostname">>, <<"DomainName", "Hostname">>}
JobDefaultOptions == {<<>>, [k \in {"option1", "option2"} |-> "checktype value"]}
JobTargetOptions == {<<>>, [k \in {"option2"} |-> "target value"]}
JobTargetAssetTypes == {"DomainName", "Hostname", ""}

JobChecktypeOf(n, assets, options, rvars) ==
  [Name |-> n, Image |-> "namespace/" \o n \o ":tag", Assets |-> assets,
   Options |-> options, RequiredVars |-> rvars]

JobChecktypes(n) ==
  {JobChecktypeOf(n, a, o, v) :
     a \in JobAssetLists, o \in JobDefaultOptions, v \in RequiredVarLists}

JobCatalogs ==
  UNION {{c \in [S -> UNION {JobChecktypes(n) : n \in S}] :
             \A n \in S : c[n].Name = n} :
         S \in SUBSET CtNames}

JobTargets ==
  [Identifier : {"example.com"}, AssetType : JobTargetAssetTypes,
   Options : JobTargetOptions]

JobTargetLists == UNION {[1..n -> JobTargets] : n \in 0..MaxTargets}

InitJobs ==
  /\ BuildIdle
  /\ CatIdle
  /\ JobIdle
  /\ RestIdle
  /\ catalog \in JobCatalogs
  /\ targets \in JobTargetLists
  /\ checks = <<>>
  /\ genErr = FALSE
  /\ genCalls = 0
  /\ nextID = 1

\* One call of generateJobs with the catalog and the targets.
GenerateJobs ==
  /\ jobCalls < MaxJobCalls
  /\ LET r == generateJobs(catalog, targets, nextID)
     IN  /\ jobs' = r.jobs
         /\ jobErr' = r.err
         /\ checks' = r.checks
         /\ genErr' = r.checksErr
         /\ nextID' = nextID + Len(r.checks)
         /\ pastJobs' = pastJobs \o r.jobs
  /\ jobCalls' = jobCalls + 1
  /\ UNCHANGED <<catalog, targets, genCalls>>
  /\ UNCHANGED buildVars
  /\ UNCHANGED catVars
  /\ UNCHANGED restVars

NextJobs == GenerateJobs

SpecJobs == InitJobs /\ [][NextJobs]_vars

(***************************************************************************)
(* The claims about the job generator.                                     *)
(***************************************************************************)
\* C14: a successful generateJobs returns one job per check that
\* generateChecks produces for the same catalog and targets, and the job of
\* a check has the checktype's image, the target's identifier, the name of
\* the target's asset type, and the checktype's required variables in the
\* declared order.
C14_JobProjection ==
  (jobCalls > 0 /\ ~jobErr)
  => LET made == generateChecks(catalog, targets, 1)
     IN  /\ ~made.err
         /\ Len(jobs) = Len(made.checks)
         /\ \A k \in 1..Len(jobs) :
              LET c == made.checks[k]
              IN  /\ jobs[k].Image = c.checktype.Image
                  /\ jobs[k].Target = c.target.Identifier
                  /\ jobs[k].AssetType = c.target.AssetType
                  /\ Len(jobs[k].RequiredVars) = Len(c.checktype.RequiredVars)
                  /\ \A i \in 1..Len(jobs[k].RequiredVars) :
                       /\ c.checktype.RequiredVars[i].isString
                       /\ jobs[k].RequiredVars[i] = c.checktype.RequiredVars[i].v

C14_Witness ==
  /\ jobCalls > 0 /\ ~jobErr
  /\ Len(jobs) = 2
  /\ jobs[1].AssetType = "Hostname"
  /\ jobs[1].Image = "namespace/checktype1:tag"
  /\ catalog["checktype1"].Assets = <<"DomainName", "Hostname">>
  /\ jobs[1].RequiredVars = <<"REQUIRED_VAR_1", "REQUIRED_VAR_2">>
  /\ jobs[2].RequiredVars = <<>>

\* C15: the options text of a job whose checktype has no default option
\* and whose target has no option is "{}"; no job has options text that is
\* empty or "null".
C15_EmptyOptionsText ==
  \A k \in 1..Len(jobs) :
    /\ (checks[k].checktype.Options = <<>> /\ checks[k].target.Options = <<>>)
       => jobs[k].Options = "{}"
    /\ jobs[k].Options \notin {"", "null"}

C15_Witness ==
  \E k \in 1..Len(jobs) :
    /\ checks[k].checktype.Options = <<>>
    /\ checks[k].target.Options = <<>>
    /\ jobs[k].Options = "{}"
    /\ \E j \in 1..Len(jobs) :
         jobs[j].Options = "{\"option1\":\"checktype value\",\"option2\":\"target value\"}"

\* A checktype that accepts the asset type of some target declares a
\* required variable that is no string.
SomeMalformedChecktype ==
  \E n \in DOMAIN catalog :
    /\ \E i \in 1..Len(targets) : Accepts(catalog[n], targets[i].AssetType)
    /\ \E j \in 1..Len(catalog[n].RequiredVars) : ~catalog[n].RequiredVars[j].isString

\* C16: when a checktype that accepts some target declares a required
\* variable that is no string, generateJobs returns an error and no job,
\* whatever the other checktypes are; an error never comes with jobs.
C16_RequiredVarValidation ==
  /\ (jobCalls > 0 /\ SomeMalformedChecktype) => (jobErr /\ jobs = <<>>)
  /\ jobErr => jobs = <<>>

C16_Witness ==
  /\ jobCalls > 0 /\ jobErr /\ jobs = <<>>
  /\ ~genErr /\ Len(checks) = 2
  /\ DOMAIN catalog = CtNames
  /\ catalog["checktype1"].RequiredVars = <<StrVar("REQUIRED_VAR_1"), StrVar("REQUIRED_VAR_2")>>
  /\ catalog["checktype2"].RequiredVars = <<StrVar("REQUIRED_VAR_1"), OtherVar("2")>>
  /\ checks[1].checktype.Name # checks[2].checktype.Name

\* C17: no two jobs of one result, or of the results of successive calls,
\* have the same check identifier, and the identifier of a job is the
\* identifier of the check it was made from.
C17_CorrelationIdentifiers ==
  /\ \A i, j \in 1..Len(pastJobs) :
       pastJobs[i].CheckID = pastJobs[j].CheckID => i = j
  /\ \A k \in 1..Len(jobs) : jobs[k].CheckID = checks[k].id

C17_Witness ==
  /\ jobCalls = 2 /\ ~jobErr
  /\ Len(jobs) = 2 /\ Len(pastJobs) = 4
  /\ jobs[1].Image = jobs[2].Image
  /\ jobs[1].AssetType # jobs[2].AssetType
  /\ pastJobs[1].Image = jobs[1].Image /\ pastJobs[1].Target = jobs[1].Target
  /\ pastJobs[1].CheckID # jobs[1].CheckID

(***************************************************************************)
(* The checktype catalog (checktypes.go): NewCatalog resolves an ordered   *)
(* list of sources.  A source is a URL text together with what the         *)
(* surroundings answer for it: whether url.Parse accepts it, its scheme,   *)
(* what os.Stat says of its path, and whether urlutil.Get returns data,    *)
(* whether the data decodes, and the checktypes it decodes to.             *)
(***************************************************************************)
\* Sources per call of NewCatalog.
MaxSources == 2
\* Calls of NewCatalog per run.
MaxCatCalls == 1

\* Error kinds of NewCatalog: "" is nil, "error" an error of a callee
\* returned as it is.
ErrMalformedCatalog == "ErrMalformedCatalog"
ErrMissingCatalog == "ErrMissingCatalog"
ErrInvalidURL == "ErrInvalidURL"

\* The nil Catalog of the error returns; a catalog made by make(Catalog) is
\* not nil, with or without entries.
NilCatalog == [isNil |-> TRUE, entries |-> <<>>]

\* isDir(u): whether the URL points to a local existing directory.
isDir(u) ==
  IF u.scheme # "" THEN [err |-> FALSE, dir |-> FALSE]
  ELSE IF u.stat = "notexist" THEN [err |-> FALSE, dir |-> FALSE]
  ELSE IF u.stat = "error" THEN [err |-> TRUE, dir |-> FALSE]
  ELSE [err |-> FALSE, dir |-> u.stat = "dir"]

\* The assignment with an entry of the name already there kept.
PutIfAbsent(entries, ct) ==
  [n \in DOMAIN entries \cup {ct.Name} |->
     IF n \in DOMAIN entries THEN entries[n] ELSE ct]

\* The entry stored under the checktype's image reference.
PutUnderImage(entries, ct) ==
  [n \in DOMAIN entries \cup {ct.Image} |-> IF n = ct.Image THEN ct ELSE entries[n]]

\* checktypes[checktype.Name] = checktype.
Put(entries, ct) ==
  [n \in DOMAIN entries \cup {ct.Name} |-> IF n = ct.Name THEN ct ELSE entries[n]]

\* The loop over the decoded checktypes (checktypes.go:98-100).
RECURSIVE PutAll(_, _)
PutAll(entries, cts) ==
  IF cts = <<>> THEN entries ELSE PutAll(Put(entries, Head(cts)), Tail(cts))

\* What a call of NewCatalog has done so far: the catalog's entries, the
\* number of sources looked at, the calls of Build and of urlutil.Get made,
\* each with the source's position and its error flag, the descriptors the
\* sources have yielded, in order, and the number of times another process
\* changed what a source points to during the call.
NoProgress ==
  [entries |-> <<>>, visited |-> 0, builds |-> <<>>, gets |-> <<>>,
   yielded |-> <<>>, changes |-> 0]

\* The return of NewCatalog with its progress.
Returned(kind, cat, acc) ==
  [err |-> kind, catalog |-> cat, visited |-> acc.visited,
   builds |-> acc.builds, gets |-> acc.gets, yielded |-> acc.yielded,
   changed |-> acc.changes > 0]

\* The error return with the entries merged so far returned along with it.
FailurePartial(kind, acc) ==
  Returned(kind, [isNil |-> FALSE, entries |-> acc.entries], acc)

\* An error return of NewCatalog: return nil, err.
Failure(kind, acc) == Returned(kind, NilCatalog, acc)

\* The check of the source list that lets an empty list through.
NoSourcesAllowed(urls) == FALSE

\* NewCatalog, the check of the source list (checktypes.go:58-60).
NoSources(urls) == Len(urls) = 0

\* The loop of NewCatalog after the source at position i, with the
\* progress acc: it goes to the next source or, past the last one,
\* returns the catalog (checktypes.go:62, 102).
Advance(urls, i, acc) ==
  IF i + 1 > Len(urls)
  THEN [done |-> TRUE, result |-> Returned("", [isNil |-> FALSE, entries |-> acc.entries], acc)]
  ELSE [done |-> FALSE, i |-> i + 1, acc |-> acc]

\* NewCatalog, the source at position i parsed and looked at
\* (checktypes.go:63-73): the call returns an error, or goes on to build
\* the directory (pc is "build") or to fetch the list (pc is "get").
AtSource(urls, i, acc) ==
  LET u == urls[i]
      seen == [acc EXCEPT !.visited = i]
  IN  IF ~u.parses THEN [done |-> TRUE, result |-> Failure(ErrInvalidURL, seen)]
      ELSE IF isDir(u).err THEN [done |-> TRUE, result |-> Failure("error", seen)]
      ELSE [done |-> FALSE, acc |-> seen,
            pc |-> IF isDir(u).dir THEN "build" ELSE "get"]

\* NewCatalog, after the Build of the source at position i has returned b
\* (checktypes.go:78-83).
AtBuilt(urls, i, acc, b) ==
  LET built == [acc EXCEPT !.builds = Append(@, [source |-> i, err |-> b.err])]
  IN  IF b.err THEN [done |-> TRUE, result |-> Failure("error", built)]
      ELSE Advance(urls, i, [built EXCEPT !.entries = Put(@, b.ct),
                                          !.yielded = Append(@, b.ct)])

\* NewCatalog, the list of the source at position i fetched, decoded and
\* merged (checktypes.go:85-100).
AtGet(urls, i, acc) ==
  LET u == urls[i]
      got == [acc EXCEPT !.gets = Append(@, [source |-> i, err |-> ~u.get])]
  IN  IF ~u.get THEN [done |-> TRUE, result |-> Failure("error", got)]
      ELSE IF ~u.decodes THEN [done |-> TRUE, result |-> Failure(ErrMalformedCatalog, got)]
      ELSE Advance(urls, i, [got EXCEPT !.entries = PutAll(@, u.checktypes),
                                        !.yielded = @ \o u.checktypes])

\* The sources of the model.
RemoteChecktype(n, image) == [NoChecktype EXCEPT !.Name = n, !.Image = image]

Payloads ==
  {<<>>,
   <<RemoteChecktype("checktype1", "registry-a/checktype1")>>,
   <<RemoteChecktype("checktype1", "registry-b/checktype1"),
     RemoteChecktype("checktype2", "registry-b/checktype2")>>,
   <<RemoteChecktype("checktype1", "registry-a/checktype1"),
     RemoteChecktype("checktype1", "registry-c/checktype1")>>,
   <<RemoteChecktype(name(Dir), "registry-a/vulcan-example")>>}

Source(parses, scheme, stat, path, get, decodes, cts) ==
  [parses |-> parses, scheme |-> scheme, stat |-> stat, path |-> path,
   get |-> get, decodes |-> decodes, checktypes |-> cts]

\* A text that url.Parse rejects.
BadURLSource == Source(FALSE, "", "notexist", <<>>, FALSE, FALSE, <<>>)
\* A local path that os.Stat fails on with an error other than not-exist.
StatErrorSource == Source(TRUE, "", "error", <<"unreadable">>, FALSE, FALSE, <<>>)
\* The local directory of the checktype's code.
DirSource == Source(TRUE, "", "dir", Dir, FALSE, FALSE, <<>>)
\* A local path that does not exist: urlutil.Get fails.
MissingFileSource == Source(TRUE, "", "notexist", <<"missing.json">>, FALSE, FALSE, <<>>)
\* A local catalog file.
FileSource ==
  Source(TRUE, "", "file", <<"catalog.json">>, TRUE, TRUE,
         <<RemoteChecktype("checktype2", "file/checktype2")>>)
\* Remote catalogs: the fetch fails, the payload does not decode, or the
\* payload decodes to a list of checktypes.
RemoteSources ==
  {Source(TRUE, "https", "notexist", <<"catalog.json">>, FALSE, FALSE, <<>>),
   Source(TRUE, "https", "notexist", <<"catalog.json">>, TRUE, FALSE, <<>>)}
  \cup {Source(TRUE, "https", "notexist", <<"catalog.json">>, TRUE, TRUE, cts) :
          cts \in Payloads}

Sources ==
  {BadURLSource, StatErrorSource, DirSource, MissingFileSource, FileSource}
  \cup RemoteSources

SourceLists == UNION {[1..n -> Sources] : n \in 0..MaxSources}

\* Changes of what a source points to, per run.
MaxSourceChanges == 1

InitCat ==
  /\ images = <<>>
  /\ tree \in CheckoutTrees
  /\ manifestText = GoodManifest
  /\ hist = <<>>
  /\ GenIdle
  /\ JobIdle
  /\ RestIdle
  /\ sources \in SourceLists
  /\ resolved = <<>>
  /\ catCalls = 0
  /\ resolving = <<>>

catFrame ==
  <<genVars, jobVars, walkVars, storeVars, callerVars, dirVars, netVars, outVars,
    mergeVars>>

\* The call in progress returns r.
CatReturn(r) ==
  /\ resolved' = r
  /\ catCalls' = catCalls + 1
  /\ resolving' = <<>>

\* The call in progress goes on with the move m of the loop.
CatGoes(m, pc) ==
  IF m.done THEN CatReturn(m.result)
  ELSE /\ resolving' = [pc |-> pc, i |-> m.i, acc |-> m.acc]
       /\ UNCHANGED <<resolved, catCalls>>

\* NewCatalog is called with the sources (checktypes.go:57-61).  NewCatalog
\* holds no lock and waits at each source for os.Stat, for urlutil.Get or
\* for Code.Build, so the call is taken source by source and statement by
\* statement.
BeginNewCatalog ==
  /\ resolving = <<>>
  /\ catCalls < MaxCatCalls
  /\ IF NoSources(sources)
     THEN CatReturn(Failure(ErrMissingCatalog, NoProgress))
     ELSE CatGoes(Advance(sources, 0, NoProgress), "source")
  /\ UNCHANGED <<images, tree, manifestText, hist, sources, running>>
  /\ UNCHANGED catFrame

\* url.Parse and isDir with its os.Stat (checktypes.go:63-73, 110).  For
\* a directory Code.Build is called (checktypes.go:78).
CatSource ==
  /\ resolving # <<>>
  /\ resolving.pc = "source"
  /\ LET m == AtSource(sources, resolving.i, resolving.acc)
     IN  IF m.done
         THEN /\ CatReturn(m.result)
              /\ UNCHANGED running
         ELSE /\ resolving' = [resolving EXCEPT !.pc = m.pc, !.acc = m.acc]
              /\ running' = IF m.pc = "build"
                            THEN NewCall(AllOk, 0, images, tree, manifestText)
                            ELSE running
              /\ UNCHANGED <<resolved, catCalls>>
  /\ UNCHANGED <<images, tree, manifestText, hist, sources>>
  /\ UNCHANGED catFrame

\* The Build called for the source has returned: its checktype is stored
\* under its name, or its error returned (checktypes.go:78-83).
CatBuilt ==
  /\ resolving # <<>>
  /\ resolving.pc = "build"
  /\ running = <<>>
  /\ CatGoes(AtBuilt(sources, resolving.i, resolving.acc, hist[Len(hist)]), "source")
  /\ UNCHANGED <<images, tree, manifestText, hist, sources, running>>
  /\ UNCHANGED catFrame

\* urlutil.Get, json.Unmarshal and the loop over the checktypes decoded
\* (checktypes.go:85-100).
CatGet ==
  /\ resolving # <<>>
  /\ resolving.pc = "get"
  /\ CatGoes(AtGet(sources, resolving.i, resolving.acc), "source")
  /\ UNCHANGED <<images, tree, manifestText, hist, sources, running>>
  /\ UNCHANGED catFrame

\* What is at a local path, as another process leaves it: a catalog file
\* is removed, or one is written where there was none.
Rewritten(u) ==
  IF u.stat = "file"
  THEN [u EXCEPT !.stat = "notexist", !.get = FALSE, !.decodes = FALSE,
                 !.checktypes = <<>>]
  ELSE [u EXCEPT !.stat = "file", !.get = TRUE, !.decodes = TRUE,
                 !.checktypes = <<RemoteChecktype("checktype2", "file/checktype2")>>]

\* Another process changes what a local source points to while the call
\* is in progress, so between the os.Stat and the urlutil.Get of a source.
ChangeSource ==
  /\ resolving # <<>>
  /\ resolving.acc.changes < MaxSourceChanges
  /\ \E i \in 1..Len(sources) :
       /\ sources[i].parses
       /\ sources[i].scheme = ""
       /\ sources[i].stat \in {"file", "notexist"}
       /\ sources' = [sources EXCEPT ![i] = Rewritten(@)]
  /\ resolving' = [resolving EXCEPT !.acc.changes = @ + 1]
  /\ UNCHANGED <<images, tree, manifestText, hist, resolved, catCalls, running>>
  /\ UNCHANGED catFrame

NextCat ==
  \/ BeginNewCatalog
  \/ CatSource
  \/ CatBuilt
  \/ CatGet
  \/ BuildSteps
  \/ TouchFile(Meanwhile)
  \/ WriteManifest(Meanwhile)
  \/ RemoveFile(Meanwhile)
  \/ ChangeSource

SpecCat == InitCat /\ [][NextCat]_vars

(***************************************************************************)
(* The claims about the checktype catalog.                                 *)
(***************************************************************************)
\* The descriptor Build returns for the directory, rebuilt or cached.
LocalDescriptor ==
  [Name |-> name(Dir), Description |-> "d", Image |-> imageName(Dir), Timeout |-> 0,
   Options |-> <<>>, RequiredVars |-> <<"VAR">>, Assets |-> <<"Hostname">>]

\* The descriptors a source that resolves yields, in order.
Yielded(u) == IF isDir(u).dir THEN <<LocalDescriptor>> ELSE u.checktypes

RECURSIVE AllYielded(_)
AllYielded(urls) ==
  IF urls = <<>> THEN <<>> ELSE Yielded(Head(urls)) \o AllYielded(Tail(urls))

\* A call of NewCatalog has returned and none is in progress: resolved is
\* what the last call returned, and the sources are as they were then.
CatDone == catCalls > 0 /\ resolving = <<>>

\* No other process wrote the directory or changed what a source points
\* to during the call that has returned.
Undisturbed == Touches = 0 /\ ~resolved.changed

\* C18: when every source of the list resolves, NewCatalog returns a
\* catalog whose names are the names the sources yielded, each mapped to
\* the descriptor yielded last under that name (by the last source, and
\* inside one source by the last position); when no other process wrote
\* the directory or the sources meanwhile, the descriptors yielded are
\* those of the sources of the list.
C18_LastWins ==
  (CatDone /\ resolved.err = "")
  => LET ys == resolved.yielded
         entries == resolved.catalog.entries
     IN  /\ ~resolved.catalog.isNil
         /\ DOMAIN entries = {ys[k].Name : k \in 1..Len(ys)}
         /\ \A k \in 1..Len(ys) :
              (\A j \in (k + 1)..Len(ys) : ys[j].Name # ys[k].Name)
              => entries[ys[k].Name] = ys[k]
         /\ Undisturbed => ys = AllYielded(sources)

C18_Witness ==
  /\ catCalls > 0 /\ resolved.err = ""
  /\ Undisturbed
  /\ Len(sources) = 2
  /\ Len(sources[1].checktypes) = 2
  /\ sources[1].checktypes[1].Name = sources[1].checktypes[2].Name
  /\ Len(sources[2].checktypes) = 2
  /\ DOMAIN resolved.catalog.entries = {"checktype1", "checktype2"}
  /\ resolved.catalog.entries["checktype1"].Image = "registry-b/checktype1"

\* C19: NewCatalog called with no source returns ErrMissingCatalog and a
\* nil catalog, and has called neither Build nor urlutil.Get; the engine's
\* images are as before.
C19_MissingCatalog ==
  (catCalls > 0 /\ sources = <<>>)
  => /\ resolved.err = ErrMissingCatalog
     /\ resolved.catalog = NilCatalog
     /\ resolved.builds = <<>> /\ resolved.gets = <<>>
     /\ resolved.visited = 0
     /\ images = <<>>
     /\ BuildEvents = {}

C19_Witness ==
  /\ catCalls > 0 /\ sources = <<>>
  /\ resolved.err = ErrMissingCatalog /\ resolved.catalog.isNil

\* The source at position i fails to resolve: its URL does not parse, the
\* stat of its path fails, its fetch fails, its payload does not decode,
\* or the Build made for it returned an error.
SourceFails(i) ==
  LET u == sources[i]
  IN  \/ ~u.parses
      \/ u.parses /\ isDir(u).err
      \/ u.parses /\ ~isDir(u).err /\ ~isDir(u).dir /\ (~u.get \/ ~u.decodes)
      \/ \E k \in 1..Len(resolved.builds) :
           resolved.builds[k].source = i /\ resolved.builds[k].err

\* The error NewCatalog returns for the source at position i that fails.
ErrorOf(i) ==
  LET u == sources[i]
  IN  IF ~u.parses THEN ErrInvalidURL
      ELSE IF ~isDir(u).err /\ ~isDir(u).dir /\ u.get /\ ~u.decodes
        THEN ErrMalformedCatalog
      ELSE "error"

\* C20: when a source of the list fails to resolve, NewCatalog returns an
\* error and a nil catalog, whatever the earlier sources merged; the error
\* is that of the first source that fails, and no source after it is
\* looked at, built or fetched.  Which source fails is read from the
\* sources as they are when no other process changed them during the
\* call; every error return, whatever changed, comes with a nil catalog
\* and nothing built or fetched after the source it returns at.
C20_NoPartialCatalog ==
  /\ (CatDone /\ ~resolved.changed /\ \E i \in 1..Len(sources) : SourceFails(i))
     => LET first == CHOOSE i \in 1..Len(sources) :
                       SourceFails(i) /\ \A j \in 1..(i - 1) : ~SourceFails(j)
        IN  /\ resolved.err = ErrorOf(first)
            /\ resolved.catalog = NilCatalog
            /\ resolved.visited = first
            /\ \A k \in 1..Len(resolved.builds) : resolved.builds[k].source <= first
            /\ \A k \in 1..Len(resolved.gets) : resolved.gets[k].source <= first
  /\ (catCalls > 0 /\ resolved.err # "")
     => /\ resolved.catalog = NilCatalog
        /\ \A k \in 1..Len(resolved.builds) : resolved.builds[k].source <= resolved.visited
        /\ \A k \in 1..Len(resolved.gets) : resolved.gets[k].source <= resolved.visited

C20_Witness ==
  /\ catCalls > 0
  /\ Len(sources) = 2
  /\ sources[1].decodes /\ Len(sources[1].checktypes) = 2
  /\ sources[2] = DirSource
  /\ resolved.builds = <<[source |-> 2, err |-> TRUE]>>
  /\ resolved.err = "error" /\ resolved.catalog.isNil
  /\ resolved.visited = 2

\* A catalog file is removed between the os.Stat and the urlutil.Get of
\* its source: the call that found a file returns the fetch's error.
CatTornRead ==
  /\ catCalls > 0 /\ resolved.changed
  /\ Len(sources) = 1
  /\ sources[1].stat = "notexist" /\ sources[1].path = <<"catalog.json">>
  /\ resolved.gets = <<[source |-> 1, err |-> TRUE]>>
  /\ resolved.err = "error"

(***************************************************************************)
(* The fingerprint walk on a directory with subdirectories.  An entry of   *)
(* the directory is a path with what fs.DirEntry says of it: whether it is *)
(* a directory, and its modification time.                                 *)
(***************************************************************************)
\* Calls of lastModified per run.
MaxWalkCalls == 1

\* The files of a directory with their times: the entries for which the
\* callback of the walk does not return at d.IsDir() (store.go:1469-1474).
Files(es) ==
  [p \in {q \in DOMAIN es : ~es[q].isDir} |-> es[p].modTime]

\* The paths of the model.
CmdDir == <<"cmd">>
ToolFile == <<"cmd", "tool.go">>
GitPath == <<".git">>
NestedGitDir == <<"cmd", ".git">>
NestedGitFile == <<"cmd", ".git", "config">>
WalkPaths == {MainFile, CmdDir, ToolFile, GitPath, GitFile, NestedGitDir, NestedGitFile}

\* The paths that can only be directories, and those that can only be
\* files; ".git" at the root is a directory or a regular file.
OnlyDirs == {CmdDir, NestedGitDir}
OnlyFiles == {MainFile, ToolFile, GitFile, NestedGitFile}

Parent(p) == SubSeq(p, 1, Len(p) - 1)

\* The directories of the model: every entry below the root lies in a
\* directory of the model; a directory was modified last.
DirEntrySets ==
  UNION {{es \in [S -> [isDir : BOOLEAN, modTime : Times]] :
            /\ \A p \in S \cap OnlyDirs : es[p].isDir
            /\ \A p \in S \cap OnlyFiles : ~es[p].isDir
            /\ \A p \in S : es[p].isDir => es[p].modTime = Max(Times)
            /\ \A p \in S : Len(p) > 1 => (Parent(p) \in S /\ es[Parent(p)].isDir)} :
         S \in SUBSET WalkPaths}

InitWalk ==
  /\ BuildIdle
  /\ GenIdle
  /\ JobIdle
  /\ CatIdle
  /\ StoreIdle
  /\ CallersIdle
  /\ LateIdle
  /\ dirEntries \in DirEntrySets
  /\ fingerprint = <<>>
  /\ walkCalls = 0

\* One call of lastModified on the directory; ok is whether the walk meets
\* no error (of a directory read or of d.Info).
DoLastModified ==
  /\ walkCalls < MaxWalkCalls
  /\ \E ok \in BOOLEAN :
       fingerprint' = [ok |-> ok, r |-> lastModified(Files(dirEntries), ok)]
  /\ walkCalls' = walkCalls + 1
  /\ UNCHANGED dirEntries
  /\ UNCHANGED <<buildVars, genVars, jobVars, catVars, storeVars, callerVars, lateVars>>

NextWalk == DoLastModified

SpecWalk == InitWalk /\ [][NextWalk]_vars

\* The entries that are no directory and lie under no directory named
\* ".git".
Counted ==
  {p \in DOMAIN dirEntries :
     /\ ~dirEntries[p].isDir
     /\ \A i \in 1..(Len(p) - 1) :
          ~(SubSeq(p, 1, i) \in DOMAIN dirEntries /\ dirEntries[SubSeq(p, 1, i)].isDir
            /\ p[i] = ".git")}

\* C30: lastModified returns the greatest modification time of the entries
\* that are no directory and lie under no directory named ".git"; it
\* returns an error when there is no such entry or when the walk fails.
C30_Fingerprint ==
  walkCalls > 0
  => IF ~fingerprint.ok \/ Counted = {}
     THEN fingerprint.r.err
     ELSE /\ ~fingerprint.r.err
          /\ \E p \in Counted : fingerprint.r.t = dirEntries[p].modTime
          /\ \A p \in Counted : dirEntries[p].modTime <= fingerprint.r.t

C30_Witness ==
  /\ walkCalls > 0 /\ fingerprint.ok /\ ~fingerprint.r.err
  /\ DOMAIN dirEntries = WalkPaths
  /\ dirEntries[GitPath].isDir
  /\ dirEntries[GitFile].modTime = Max(Times)
  /\ dirEntries[NestedGitFile].modTime = Max(Times)
  /\ fingerprint.r.t = dirEntries[ToolFile].modTime
  /\ dirEntries[MainFile].modTime < fingerprint.r.t
  /\ fingerprint.r.t < Max(Times)

(***************************************************************************)
(* The report store (store.go:16-74).  Go maps are references: the model   *)
(* keeps every map of the process in a heap, by address, so that a map     *)
(* returned to a caller and the map of the store are the same map or two   *)
(* maps as they are in the program.  A report is the record of the fields  *)
(* the model uses.                                                         *)
(***************************************************************************)
\* Operations on the store per run.
MaxStoreOps == 3

CheckIDs == {"check1", "check2"}

\* Upload contents: two reports of one checktype and target that differ in
\* status, findings and start time, and a text that is no JSON document.
ContentA ==
  "{\"checktype_name\":\"checktype1\",\"status\":\"FINISHED\",\"target\":\"example.com\",\"vulnerabilities\":[{\"summary\":\"v1\"}],\"start_time\":\"2023-09-07 16:35:31\"}"
ContentB ==
  "{\"checktype_name\":\"checktype1\",\"status\":\"FAILED\",\"target\":\"example.com\",\"vulnerabilities\":[{\"summary\":\"v2\"}],\"start_time\":\"2023-09-07 16:40:00\"}"
ContentBad == "{\"checktype_name\":"
Contents == {ContentA, ContentB, ContentBad}

ReportA ==
  [ChecktypeName |-> "checktype1", Status |-> "FINISHED", Target |-> "example.com",
   Vulnerabilities |-> <<"v1">>, StartTime |-> "2023-09-07 16:35:31"]
ReportB ==
  [ChecktypeName |-> "checktype1", Status |-> "FAILED", Target |-> "example.com",
   Vulnerabilities |-> <<"v2">>, StartTime |-> "2023-09-07 16:40:00"]
\* The zero report.Report.  Vulnerabilities holds the summaries of the
\* findings of a report.
ZeroReport ==
  [ChecktypeName |-> "", Status |-> "", Target |-> "", Vulnerabilities |-> <<>>,
   StartTime |-> "0001-01-01 00:00:00"]

\* r.UnmarshalJSONTimeAsString(content): the report a content decodes to,
\* or an error.
UnmarshalReport(content) ==
  IF content = ContentA THEN [err |-> FALSE, report |-> ReportA]
  ELSE IF content = ContentB THEN [err |-> FALSE, report |-> ReportB]
  ELSE [err |-> TRUE, report |-> ZeroReport]

\* The %v form of a time.Time in UTC.
TimeString(t) == t \o " +0000 UTC"

\* The summary line without the status.
LineWithoutStatus(r) ==
  "checktype=" \o r.ChecktypeName \o " target=" \o r.Target
  \o " start=" \o TimeString(r.StartTime)

\* The summary line of a report (store.go:62).
Line(r) ==
  "checktype=" \o r.ChecktypeName \o " target=" \o r.Target
  \o " start=" \o TimeString(r.StartTime) \o " status=" \o r.Status

\* The address of the next map made.
NewAddr(h) == Cardinality(DOMAIN h) + 1

\* The heap with a new map that has the given entries.
Alloc(h, m) == [a \in DOMAIN h \cup {NewAddr(h)} |-> IF a = NewAddr(h) THEN m ELSE h[a]]

\* m[k] = v and delete(m, k) on a map.
SetEntry(m, k, v) == [x \in DOMAIN m \cup {k} |-> IF x = k THEN v ELSE m[x]]
DeleteEntry(m, k) == [x \in DOMAIN m \ {k} |-> m[x]]

\* The entries of the map at an address; the nil map has none.
MapAt(h, a) == IF a = NilMap THEN <<>> ELSE h[a]

\* if rs.reports == nil { rs.reports = make(...) } (store.go:34-36).
InitReports(h, rs) ==
  IF rs = NilMap THEN [heap |-> Alloc(h, <<>>), rs |-> NewAddr(h)]
  ELSE [heap |-> h, rs |-> rs]

\* Error kinds of UploadCheckData: "" is nil.
ErrDecode == "decode content"
ErrUnknownKind == "unknown data kind"

\* The switch with the findings of a report added to those stored under
\* the identifier.
SwitchMerges(h, rs, checkID, kind, content) ==
  LET d == UnmarshalReport(content)
      out(e, m) == [err |-> e, heap |-> [h EXCEPT ![rs] = m], rs |-> rs]
  IN  IF kind = "reports"
        THEN IF d.err THEN out(ErrDecode, h[rs])
             ELSE out("", SetEntry(h[rs], checkID,
                       IF checkID \in DOMAIN h[rs]
                       THEN [d.report EXCEPT !.Vulnerabilities =
                               h[rs][checkID].Vulnerabilities \o @]
                       ELSE d.report))
      ELSE IF kind = "logs" THEN out("", h[rs])
      ELSE out(ErrUnknownKind, h[rs])

\* The switch with the report stored before the decode error is looked at.
SwitchStoresUndecoded(h, rs, checkID, kind, content) ==
  LET d == UnmarshalReport(content)
      out(e, m) == [err |-> e, heap |-> [h EXCEPT ![rs] = m], rs |-> rs]
  IN  IF kind = "reports"
        THEN IF d.err THEN out(ErrDecode, SetEntry(h[rs], checkID, d.report))
             ELSE out("", SetEntry(h[rs], checkID, d.report))
      ELSE IF kind = "logs" THEN out("", h[rs])
      ELSE out(ErrUnknownKind, h[rs])

\* The switch with the entry of the identifier removed on a decode error.
SwitchDropsOnFailure(h, rs, checkID, kind, content) ==
  LET d == UnmarshalReport(content)
      out(e, m) == [err |-> e, heap |-> [h EXCEPT ![rs] = m], rs |-> rs]
  IN  IF kind = "reports"
        THEN IF d.err THEN out(ErrDecode, DeleteEntry(h[rs], checkID))
             ELSE out("", SetEntry(h[rs], checkID, d.report))
      ELSE IF kind = "logs" THEN out("", h[rs])
      ELSE out(ErrUnknownKind, h[rs])

\* The switch with the content of a "logs" upload decoded as well.
SwitchDecodesLogs(h, rs, checkID, kind, content) ==
  LET d == UnmarshalReport(content)
      out(e, m) == [err |-> e, heap |-> [h EXCEPT ![rs] = m], rs |-> rs]
  IN  IF kind = "reports"
        THEN IF d.err THEN out(ErrDecode, h[rs])
             ELSE out("", SetEntry(h[rs], checkID, d.report))
      ELSE IF kind = "logs" THEN out(IF d.err THEN ErrDecode ELSE "", h[rs])
      ELSE out(ErrUnknownKind, h[rs])

\* The switch with a kind it does not know accepted.
SwitchIgnoresUnknown(h, rs, checkID, kind, content) ==
  LET d == UnmarshalReport(content)
      out(e, m) == [err |-> e, heap |-> [h EXCEPT ![rs] = m], rs |-> rs]
  IN  IF kind = "reports"
        THEN IF d.err THEN out(ErrDecode, h[rs])
             ELSE out("", SetEntry(h[rs], checkID, d.report))
      ELSE IF kind = "logs" THEN out("", h[rs])
      ELSE out("", h[rs])

\* The switch on kind (store.go:38-53), run with rs.reports made: the
\* error returned and the heap afterwards.
Switch(h, rs, checkID, kind, content) ==
  LET d == UnmarshalReport(content)
      out(e, m) == [err |-> e, heap |-> [h EXCEPT ![rs] = m], rs |-> rs]
  IN  IF kind = "reports"
        THEN IF d.err THEN out(ErrDecode, h[rs])
             ELSE out("", SetEntry(h[rs], checkID, d.report))
      ELSE IF kind = "logs" THEN out("", h[rs])
      ELSE out(ErrUnknownKind, h[rs])

\* UploadCheckData(checkID, kind, startedAt, content), inside the lock.
UploadCheckData(h, rs, checkID, kind, content) ==
  LET made == InitReports(h, rs)
  IN  Switch(made.heap, made.rs, checkID, kind, content)

\* The orders in which a range over a map can visit its keys.
Orders(S) ==
  {o \in [1..Cardinality(S) -> S] : \A i, j \in 1..Cardinality(S) : o[i] = o[j] => i = j}

\* Summary(), inside the lock, with the map visited in the given order;
\* the nil map gives no line.
Summary(h, rs, order) ==
  [i \in 1..Len(order) |-> Line(MapAt(h, rs)[order[i]])]

\* Reports with the map of the store returned as it is.
ReportsNoClone(h, rs) == [ret |-> rs, heap |-> h]

\* Reports(), inside the lock: maps.Clone gives nil for the nil map and a
\* new map with the same entries for any other.
Reports(h, rs) ==
  IF rs = NilMap THEN [ret |-> NilMap, heap |-> h]
  ELSE [ret |-> NewAddr(h), heap |-> Alloc(h, h[rs])]

\* The upload kinds of the model: the two the store knows and two others.
Kinds == {"reports", "logs", "report", ""}

\* The uploads of the model: a report upload with any content, a log
\* upload with a well-formed or a malformed content, an upload of another
\* kind.
Uploads ==
  {u \in [id : CheckIDs, kind : Kinds, content : Contents] :
     /\ u.kind = "logs" => u.content \in {ContentA, ContentBad}
     /\ u.kind \notin {"reports", "logs"} => u.content = ContentA}

\* The entries of the maps handed to the callers of Reports.
HandedMaps(h) == [i \in 1..Len(handed) |-> MapAt(h, handed[i])]

\* What a caller would get from the store in a state: the entries of the
\* map Reports returns, and the line lists Summary can return.
Observed(h, rs) ==
  [reports |-> LET r == Reports(h, rs) IN MapAt(r.heap, r.ret),
   summaries |-> {Summary(h, rs, o) : o \in Orders(DOMAIN MapAt(h, rs))}]

\* The record of one operation on the store: its arguments, what it
\* returned, and the entries of the store's map, what a caller would get
\* from the store, and the entries of the handed maps, before and after it.
StoreEvent(op, u, err, lines, ret, h, rs) ==
  [op |-> op, id |-> u.id, kind |-> u.kind, content |-> u.content,
   err |-> err, lines |-> lines, ret |-> ret, retMap |-> MapAt(h, ret),
   storeMap |-> rs,
   before |-> MapAt(heap, rsReports), after |-> MapAt(h, rs),
   seenBefore |-> Observed(heap, rsReports), seenAfter |-> Observed(h, rs),
   handedBefore |-> HandedMaps(heap), handedAfter |-> HandedMaps(h)]

NoUpload == [id |-> "", kind |-> "", content |-> ""]

InitStore ==
  /\ BuildIdle
  /\ GenIdle
  /\ JobIdle
  /\ CatIdle
  /\ WalkIdle
  /\ CallersIdle
  /\ LateIdle
  /\ heap = <<>>
  /\ rsReports = NilMap
  /\ handed = <<>>
  /\ storeLog = <<>>

\* One call of UploadCheckData.
DoUpload ==
  /\ Len(storeLog) < MaxStoreOps
  /\ \E u \in Uploads :
       LET r == UploadCheckData(heap, rsReports, u.id, u.kind, u.content)
       IN  /\ heap' = r.heap
           /\ rsReports' = r.rs
           /\ storeLog' = Append(storeLog,
                                 StoreEvent("Upload", u, r.err, <<>>, NilMap, r.heap, r.rs))
  /\ UNCHANGED handed
  /\ UNCHANGED <<buildVars, genVars, jobVars, catVars, walkVars, callerVars, lateVars>>

\* One call of Summary.
DoSummary ==
  /\ Len(storeLog) < MaxStoreOps
  /\ \E order \in Orders(DOMAIN MapAt(heap, rsReports)) :
       storeLog' = Append(storeLog,
                          StoreEvent("Summary", NoUpload, "",
                                     Summary(heap, rsReports, order), NilMap,
                                     heap, rsReports))
  /\ UNCHANGED <<heap, rsReports, handed>>
  /\ UNCHANGED <<buildVars, genVars, jobVars, catVars, walkVars, callerVars, lateVars>>

\* One call of Reports; the caller keeps the map it gets.
DoReports ==
  /\ Len(storeLog) < MaxStoreOps
  /\ LET r == Reports(heap, rsReports)
     IN  /\ heap' = r.heap
         /\ handed' = Append(handed, r.ret)
         /\ storeLog' = Append(storeLog,
                               StoreEvent("Reports", NoUpload, "", <<>>, r.ret,
                                          r.heap, rsReports))
  /\ UNCHANGED rsReports
  /\ UNCHANGED <<buildVars, genVars, jobVars, catVars, walkVars, callerVars, lateVars>>

\* A caller changes a map it got from Reports: it sets an entry (adding or
\* replacing it) or deletes one.
MutateHanded ==
  /\ Len(storeLog) < MaxStoreOps
  /\ \E i \in 1..Len(handed) : \E k \in CheckIDs : \E set \in BOOLEAN :
       /\ handed[i] # NilMap
       /\ LET m == heap[handed[i]]
              h == [heap EXCEPT ![handed[i]] =
                      IF set THEN SetEntry(m, k, ZeroReport) ELSE DeleteEntry(m, k)]
          IN  /\ heap' = h
              /\ storeLog' = Append(storeLog,
                                    StoreEvent("Mutate", [NoUpload EXCEPT !.id = k], "",
                                               <<>>, handed[i], h, rsReports))
  /\ UNCHANGED <<rsReports, handed>>
  /\ UNCHANGED <<buildVars, genVars, jobVars, catVars, walkVars, callerVars, lateVars>>

NextStore == DoUpload \/ DoSummary \/ DoReports \/ MutateHanded

SpecStore == InitStore /\ [][NextStore]_vars

\* The events of the log that are uploads.
UploadEvents == {i \in 1..Len(storeLog) : storeLog[i].op = "Upload"}

\* The uploads of the log, up to event i, that stored a report under id.
Stored(id, i) ==
  {j \in UploadEvents : /\ j <= i
                        /\ storeLog[j].id = id
                        /\ storeLog[j].kind = "reports"
                        /\ storeLog[j].err = ""}

Last(S) == CHOOSE j \in S : \A k \in S : k <= j

\* C21: Store overwrite.  After any sequence of operations the store has
\* one entry for each check identifier that had a successful "reports"
\* upload and no other entry, and the entry of an identifier is the report
\* parsed from the payload of the last such upload, with nothing of an
\* earlier payload in it.
C21_StoreOverwrite ==
  \A i \in 1..Len(storeLog) :
    LET e == storeLog[i]
    IN  /\ DOMAIN e.after = {id \in CheckIDs : Stored(id, i) # {}}
        /\ \A id \in DOMAIN e.after :
             e.after[id] = UnmarshalReport(storeLog[Last(Stored(id, i))].content).report
        /\ (e.op = "Upload" /\ e.kind = "reports" /\ e.err = "" /\ e.id \in DOMAIN e.before)
             => /\ DOMAIN e.after = DOMAIN e.before
                /\ e.after[e.id].Vulnerabilities
                     = UnmarshalReport(e.content).report.Vulnerabilities

\* Two successful "reports" uploads with different payloads under one
\* identifier; the store holds the report of the second.
C21_Witness ==
  \E i, j \in UploadEvents :
    /\ i < j
    /\ storeLog[i].id = storeLog[j].id
    /\ storeLog[i].kind = "reports" /\ storeLog[i].content = ContentA
    /\ storeLog[i].err = ""
    /\ storeLog[j].kind = "reports" /\ storeLog[j].content = ContentB
    /\ storeLog[j].err = ""
    /\ storeLog[j].after = (storeLog[j].id :> ReportB)

\* C22: a "reports" upload whose content does not parse returns a decode
\* error and leaves the stored reports as they were, the report stored
\* under the same identifier included: the entries of the store, what
\* Reports returns and what Summary can return are the same before and
\* after the call.
C22_DecodeErrorStoresNothing ==
  \A i \in UploadEvents :
    LET e == storeLog[i]
    IN  (e.kind = "reports" /\ e.content = ContentBad)
          => /\ e.err = ErrDecode
             /\ e.after = e.before
             /\ e.seenAfter = e.seenBefore

\* A payload that does not parse, uploaded under an identifier that has a
\* report.
C22_Witness ==
  \E i \in UploadEvents :
    /\ storeLog[i].kind = "reports"
    /\ storeLog[i].content = ContentBad
    /\ storeLog[i].err = ErrDecode
    /\ storeLog[i].id \in DOMAIN storeLog[i].before
    /\ storeLog[i].after[storeLog[i].id] = ReportA

\* C23: a "logs" upload returns no error, whatever its content and check
\* identifier, and leaves the stored reports as they were: the entries of
\* the store, what Reports returns and what Summary can return are the
\* same before and after the call.
C23_LogsAreDiscarded ==
  \A i \in UploadEvents :
    LET e == storeLog[i]
    IN  e.kind = "logs"
          => /\ e.err = ""
             /\ e.after = e.before
             /\ e.seenAfter = e.seenBefore

\* A "logs" upload of a text that is no report, under an identifier that
\* has a report.
C23_Witness ==
  \E i \in UploadEvents :
    /\ storeLog[i].kind = "logs"
    /\ storeLog[i].content = ContentBad
    /\ storeLog[i].err = ""
    /\ storeLog[i].id \in DOMAIN storeLog[i].before

\* C24: an upload of a kind other than "reports" and "logs" returns the
\* unknown-kind error and leaves the stored reports as they were.
C24_UnknownKind ==
  \A i \in UploadEvents :
    LET e == storeLog[i]
    IN  e.kind \notin {"reports", "logs"}
          => /\ e.err = ErrUnknownKind
             /\ e.after = e.before
             /\ e.seenAfter = e.seenBefore

\* An upload of kind "report" to a store that holds a report.
C24_Witness ==
  \E i \in UploadEvents :
    /\ storeLog[i].kind = "report"
    /\ storeLog[i].err = ErrUnknownKind
    /\ storeLog[i].before # <<>>

\* C26: Reports returns a copy.  The map it returns has the entries of the
\* store and is not the map of the store; a caller that adds, replaces or
\* deletes an entry of a map it got changes nothing of what Reports and
\* Summary return afterwards; and an upload changes no map handed out
\* before it.
C26_ReportsIsACopy ==
  \A i \in 1..Len(storeLog) :
    LET e == storeLog[i]
    IN  /\ e.op = "Reports"
          => /\ e.retMap = e.before
             /\ e.ret # NilMap => e.ret # e.storeMap
             /\ e.after = e.before
        /\ e.op = "Mutate"
          => /\ e.after = e.before
             /\ e.seenAfter = e.seenBefore
        /\ e.op = "Upload" => e.handedAfter = e.handedBefore

\* A caller changed a map it got from a store that holds a report.
C26_Witness ==
  \E i \in 1..Len(storeLog) :
    /\ storeLog[i].op = "Mutate"
    /\ storeLog[i].handedAfter # storeLog[i].handedBefore
    /\ storeLog[i].before # <<>>
    /\ storeLog[i].id \in DOMAIN storeLog[i].before

\* C27: Summary returns one line for each stored report and no other line:
\* as many lines as check identifiers with a stored report, none for a
\* fresh store, each being
\* "checktype=<name> target=<target> start=<time> status=<status>" of one
\* stored report.
C27_SummaryLines ==
  \A i \in 1..Len(storeLog) :
    LET e == storeLog[i]
        n == Cardinality(DOMAIN e.before)
    IN  e.op = "Summary"
          => /\ Len(e.lines) = n
             /\ e.storeMap = NilMap => e.lines = <<>>
             /\ \E o \in Orders(DOMAIN e.before) :
                  \A k \in 1..n :
                    e.lines[k] = "checktype=" \o e.before[o[k]].ChecktypeName
                                 \o " target=" \o e.before[o[k]].Target
                                 \o " start=" \o e.before[o[k]].StartTime \o " +0000 UTC"
                                 \o " status=" \o e.before[o[k]].Status

\* A summary of a store with two reports, the line of the second stored
\* one coming first.
C27_Witness ==
  \E i \in 1..Len(storeLog) :
    /\ storeLog[i].op = "Summary"
    /\ storeLog[i].before = ("check1" :> ReportA @@ "check2" :> ReportB)
    /\ storeLog[i].lines =
         <<"checktype=checktype1 target=example.com start=2023-09-07 16:40:00 +0000 UTC status=FAILED",
           "checktype=checktype1 target=example.com start=2023-09-07 16:35:31 +0000 UTC status=FINISHED">>

\* C28: Retention.  A check identifier that has a report keeps having one
\* after every later operation: the set of stored identifiers never
\* shrinks.
C28_Retention ==
  /\ \A i \in 1..Len(storeLog) : DOMAIN storeLog[i].before \subseteq DOMAIN storeLog[i].after
  /\ \A i, j \in 1..Len(storeLog) :
       i <= j => DOMAIN storeLog[i].after \subseteq DOMAIN storeLog[j].after
  /\ \A i \in 1..Len(storeLog) :
       DOMAIN storeLog[i].after \subseteq DOMAIN MapAt(heap, rsReports)

\* A report is stored, and then an upload under its identifier fails and
\* another operation follows.
C28_Witness ==
  /\ Len(storeLog) = 3
  /\ storeLog[1].op = "Upload" /\ storeLog[1].err = "" /\ storeLog[1].after # <<>>
  /\ storeLog[2].op = "Upload" /\ storeLog[2].err = ErrDecode
  /\ storeLog[2].id = storeLog[1].id
  /\ storeLog[3].op = "Upload" /\ storeLog[3].err = ErrUnknownKind
  /\ storeLog[1].id \in DOMAIN MapAt(heap, rsReports)

\* ---------------------------------------------------------------------
\* The report store under concurrent callers.  Every method takes rs.mu
\* first and releases it on return (store.go:29-30, 57-58, 70-71); between
\* the two a method runs statement by statement, a range over the map and
\* the copy of maps.Clone one entry at a time.

MaxBegun == 3

Procs == {"p1", "p2"}

\* The uploads of the concurrent callers.
ConcUploads == {u \in Uploads : u.kind = "reports"}

\* A caller: where it is in its call, the call and its arguments, the
\* entries of the store when it took the lock, the keys its loop has
\* visited, and what it returns.
IdleCaller ==
  [pc |-> "idle", op |-> "", u |-> NoUpload, err |-> "", atLock |-> <<>>,
   visited |-> <<>>, lines |-> <<>>, ret |-> NilMap]

Inside == {"locked", "making", "made", "copy", "return"}

InitCallers ==
  /\ BuildIdle
  /\ GenIdle
  /\ JobIdle
  /\ CatIdle
  /\ WalkIdle
  /\ LateIdle
  /\ heap = <<>>
  /\ rsReports = NilMap
  /\ handed = <<>>
  /\ storeLog = <<>>
  /\ mu = ""
  /\ callers = [p \in Procs |-> IdleCaller]
  /\ begun = 0

otherVars == <<buildVars, genVars, jobVars, catVars, walkVars, lateVars, handed, storeLog>>

\* A caller starts a call of UploadCheckData, Summary or Reports.
CallUpload ==
  /\ begun < MaxBegun
  /\ \E p \in Procs : \E u \in ConcUploads :
       /\ callers[p].pc = "idle"
       /\ callers' = [callers EXCEPT ![p] = [IdleCaller EXCEPT !.pc = "call", !.op = "Upload", !.u = u]]
  /\ begun' = begun + 1
  /\ UNCHANGED <<mu, heap, rsReports, otherVars>>

CallSummary ==
  /\ begun < MaxBegun
  /\ \E p \in Procs :
       /\ callers[p].pc = "idle"
       /\ callers' = [callers EXCEPT ![p] = [IdleCaller EXCEPT !.pc = "call", !.op = "Summary"]]
  /\ begun' = begun + 1
  /\ UNCHANGED <<mu, heap, rsReports, otherVars>>

CallReports ==
  /\ begun < MaxBegun
  /\ \E p \in Procs :
       /\ callers[p].pc = "idle"
       /\ callers' = [callers EXCEPT ![p] = [IdleCaller EXCEPT !.pc = "call", !.op = "Reports"]]
  /\ begun' = begun + 1
  /\ UNCHANGED <<mu, heap, rsReports, otherVars>>

\* rs.mu.Lock() that does not wait for the mutex to be free.
LockNoMutex ==
  /\ \E p \in Procs :
       /\ callers[p].pc = "call"
       /\ mu' = p
       /\ callers' = [callers EXCEPT ![p].pc = "locked",
                                     ![p].atLock = MapAt(heap, rsReports)]
  /\ UNCHANGED <<begun, heap, rsReports, otherVars>>

\* rs.mu.Lock(): the caller goes on when the mutex is free, and holds it.
Lock ==
  /\ \E p \in Procs :
       /\ callers[p].pc = "call"
       /\ mu = ""
       /\ mu' = p
       /\ callers' = [callers EXCEPT ![p].pc = "locked",
                                     ![p].atLock = MapAt(heap, rsReports)]
  /\ UNCHANGED <<begun, heap, rsReports, otherVars>>

\* UploadCheckData: rs.reports == nil is looked at.
UploadCheckNil ==
  /\ \E p \in Procs :
       /\ callers[p].pc = "locked"
       /\ callers[p].op = "Upload"
       /\ callers' = [callers EXCEPT
                        ![p].pc = IF rsReports = NilMap THEN "making" ELSE "made"]
  /\ UNCHANGED <<mu, begun, heap, rsReports, otherVars>>

\* UploadCheckData: a caller that saw the nil map makes a map and puts
\* it in rs.reports.
UploadMake ==
  /\ \E p \in Procs :
       /\ callers[p].pc = "making"
       /\ LET made == InitReports(heap, NilMap)
          IN  /\ heap' = made.heap
              /\ rsReports' = made.rs
       /\ callers' = [callers EXCEPT ![p].pc = "made"]
  /\ UNCHANGED <<mu, begun, otherVars>>

\* UploadCheckData: the switch on kind.
UploadSwitch ==
  /\ \E p \in Procs :
       /\ callers[p].pc = "made"
       /\ rsReports # NilMap
       /\ LET c == callers[p]
              r == Switch(heap, rsReports, c.u.id, c.u.kind, c.u.content)
          IN  /\ heap' = r.heap
              /\ callers' = [callers EXCEPT ![p].pc = "return", ![p].err = r.err]
  /\ UNCHANGED <<mu, begun, rsReports, otherVars>>

\* Summary: one turn of the loop over the map, or its end.
SummaryVisit ==
  /\ \E p \in Procs :
       /\ callers[p].pc = "locked"
       /\ callers[p].op = "Summary"
       /\ LET left == DOMAIN MapAt(heap, rsReports) \ Range(callers[p].visited)
          IN  IF left = {}
                THEN callers' = [callers EXCEPT ![p].pc = "return"]
                ELSE \E k \in left :
                       callers' = [callers EXCEPT
                                     ![p].visited = Append(@, k),
                                     ![p].lines = Append(@, Line(MapAt(heap, rsReports)[k]))]
  /\ UNCHANGED <<mu, begun, heap, rsReports, otherVars>>

\* Reports: maps.Clone gives nil for a nil map and starts a new map for
\* any other.
ReportsAlloc ==
  /\ \E p \in Procs :
       /\ callers[p].pc = "locked"
       /\ callers[p].op = "Reports"
       /\ IF rsReports = NilMap
            THEN /\ callers' = [callers EXCEPT ![p].pc = "return"]
                 /\ heap' = heap
            ELSE /\ callers' = [callers EXCEPT ![p].pc = "copy", ![p].ret = NewAddr(heap)]
                 /\ heap' = Alloc(heap, <<>>)
  /\ UNCHANGED <<mu, begun, rsReports, otherVars>>

\* Reports: maps.Clone copies one entry, or has copied them all.
ReportsCopy ==
  /\ \E p \in Procs :
       /\ callers[p].pc = "copy"
       /\ LET c == callers[p]
              left == DOMAIN MapAt(heap, rsReports) \ Range(c.visited)
          IN  IF left = {}
                THEN /\ callers' = [callers EXCEPT ![p].pc = "return"]
                     /\ heap' = heap
                ELSE \E k \in left :
                       /\ callers' = [callers EXCEPT ![p].visited = Append(@, k)]
                       /\ heap' = [heap EXCEPT ![c.ret] = SetEntry(@, k, heap[rsReports][k])]
  /\ UNCHANGED <<mu, begun, rsReports, otherVars>>

\* The deferred rs.mu.Unlock(): the call returns.
Unlock ==
  /\ \E p \in Procs :
       /\ callers[p].pc = "return"
       /\ callers' = [callers EXCEPT ![p].pc = "idle"]
  /\ mu' = ""
  /\ UNCHANGED <<begun, heap, rsReports, otherVars>>

NextCallers ==
  \/ CallUpload
  \/ CallSummary
  \/ CallReports
  \/ Lock
  \/ UploadCheckNil
  \/ UploadMake
  \/ UploadSwitch
  \/ SummaryVisit
  \/ ReportsAlloc
  \/ ReportsCopy
  \/ Unlock

SpecCallers == InitCallers /\ [][NextCallers]_vars

\* The callers between Lock and Unlock.
InCriticalSection == {p \in Procs : callers[p].pc \in Inside}

\* The callers whose result is complete: about to return, or returned.
Returning(op) ==
  {p \in Procs : callers[p].op = op /\ callers[p].pc \in {"return", "idle"}}

\* C25: Mutual exclusion in the report store.  Under every interleaving of
\* callers of UploadCheckData, Summary and Reports at most one caller is
\* between its Lock and its Unlock, and it is the holder of the mutex; the
\* store does not change under a reader; and every result is that of the
\* whole call run on the store as it was when the caller took the lock: a
\* Summary has the lines of exactly those entries, a Reports map has
\* exactly those entries, and an upload applied to those entries is what
\* the store holds when the upload returns.
C25_MutualExclusion ==
  /\ Cardinality(InCriticalSection) <= 1
  /\ \A p \in InCriticalSection : mu = p
  /\ InCriticalSection = {} => mu = ""
  /\ \A p \in InCriticalSection :
       callers[p].op \in {"Summary", "Reports"}
         => MapAt(heap, rsReports) = callers[p].atLock
  /\ \A p \in Returning("Summary") :
       LET c == callers[p]
       IN  /\ Range(c.visited) = DOMAIN c.atLock
           /\ Len(c.visited) = Cardinality(DOMAIN c.atLock)
           /\ Len(c.lines) = Len(c.visited)
           /\ \A i \in 1..Len(c.lines) : c.lines[i] = Line(c.atLock[c.visited[i]])
  /\ \A p \in Returning("Reports") :
       MapAt(heap, callers[p].ret) = callers[p].atLock
  /\ \A p \in Procs :
       LET c == callers[p]
       IN  (c.op = "Upload" /\ c.pc = "return")
             => MapAt(heap, rsReports)
                  = IF UnmarshalReport(c.u.content).err THEN c.atLock
                    ELSE SetEntry(c.atLock, c.u.id, UnmarshalReport(c.u.content).report)

\* A caller of Reports holds the mutex with its copy of a stored report
\* still to be made, while another caller waits at Lock with a different
\* report for the same identifier.
C25_Witness ==
  \E p, q \in Procs :
    /\ p # q
    /\ callers[p].op = "Reports"
    /\ callers[p].pc = "copy"
    /\ callers[p].visited = <<>>
    /\ callers[p].atLock = ("check1" :> ReportA)
    /\ callers[q].pc = "call"
    /\ callers[q].op = "Upload"
    /\ callers[q].u = [id |-> "check1", kind |-> "reports", content |-> ContentB]

(***************************************************************************)
(* SpecOrder: the statements of one Build call, from a checkout with or    *)
(* without its manifest and an engine with no image or with one a Build    *)
(* made.  Any answer of the surroundings can fail, and another process can *)
(* write the directory between two statements.                             *)
(***************************************************************************)
MaxOrderCalls == 1

\* A checkout of the earliest or of the latest time, whose manifest file
\* may be missing.
OrderCheckouts == {tr \in CheckoutTrees : tr[MainFile] \in {0, Max(Times)}}

OrderTrees ==
  OrderCheckouts
  \cup {[p \in Paths \ {ManifestPath} |-> tr[p]] : tr \in OrderCheckouts}

\* No image, or the image a Build of the checktype made of a directory
\* with the earliest time.
OrderImages ==
  {<<>>,
   [t \in {imageName(Dir)} |-> NewLabels(name(Dir), GoodManifest, Format(0))]}

InitOrder ==
  /\ images \in OrderImages
  /\ tree \in OrderTrees
  /\ manifestText \in (IF ManifestPath \in DOMAIN tree
                        THEN {GoodManifest, MalformedManifest} ELSE {""})
  /\ hist = <<>>
  /\ GenIdle
  /\ JobIdle
  /\ CatIdle
  /\ RestIdle

NextOrder ==
  \/ BeginBuild(Calls < MaxOrderCalls)
  \/ BuildSteps
  \/ TouchFile(Meanwhile)
  \/ WriteManifest(Meanwhile)
  \/ RemoveFile(Meanwhile)

SpecOrder == InitOrder /\ [][NextOrder]_vars

\* C36: Build step ordering.  In one Build call the engine's build call is
\* issued only after the label lookup decided to rebuild, the compile step
\* succeeded, the manifest was read and parsed, the archive was produced
\* and the fingerprint was computed; the statements run in that order, each
\* once, so the call returns at the first of them that fails, and then no
\* engine build call is issued.
C36_StepOrder ==
  \A e \in BuildEvents :
    /\ e.builds >= 1
         => /\ e.builds = 1
            /\ LastOf(e.trace, 5) = RebuildOrder
            /\ PlaceOf(e.trace, "inspect") > 0
            /\ PlaceOf(e.trace, "inspect") < PlaceOf(e.trace, "compile")
            /\ PlaceOf(e.trace, "reuse") = 0
            /\ e.env.list1 /\ e.env.compile /\ e.env.read /\ e.env.tar /\ e.env.walk2
            /\ ~ParseManifest(e.content).err
    /\ \A i, j \in 1..Len(e.trace) : (i # j) => e.trace[i] # e.trace[j]
    /\ \A i, j \in 1..Len(RebuildOrder) :
         ( /\ i < j
           /\ PlaceOf(e.trace, RebuildOrder[j]) > 0 )
         => /\ PlaceOf(e.trace, RebuildOrder[i]) > 0
            /\ PlaceOf(e.trace, RebuildOrder[i]) < PlaceOf(e.trace, RebuildOrder[j])
    /\ PlaceOf(e.trace, "engine") > 0 <=> e.builds >= 1
    /\ \A f \in {"compile", "read", "tar", "walk2"} :
         ~e.env[f] => (e.err /\ e.builds = 0 /\ e.trace[Len(e.trace)] = e.step)
    /\ e.step \in {"compile", "manifest", "archive", "fingerprint"}
         => (e.err /\ e.builds = 0 /\ e.trace[Len(e.trace)] = e.step)
    /\ (e.err /\ e.builds = 0) => e.imagesAfter = e.images

\* A call decides to rebuild, compiles and reads the manifest, and the
\* archive fails: the call returns there, the fingerprint is not taken and
\* no engine build call is issued.
C36_Witness ==
  \E e \in BuildEvents :
    /\ ~e.env.tar
    /\ e.step = "archive"
    /\ e.trace = <<"client", "inspect", "compile", "manifest", "archive">>
    /\ e.err /\ e.builds = 0
    /\ e.lookups = 1

(***************************************************************************)
(* SpecDirs: Build calls on two source directories that have the same last *)
(* path element, against one engine that starts with no image.  The calls  *)
(* are made by processes that run at the same time: each call is taken     *)
(* statement by statement, a statement of one call can fall between two    *)
(* statements of another, and another process can write a directory        *)
(* meanwhile.  Here running holds the calls in progress by number.         *)
(***************************************************************************)
MaxDirCalls == 2
MaxDirTouches == 1

\* Another directory with the base name of Dir, and its manifest.
OtherDir == <<"forks", "vulcan-example">>
TheDirs == {Dir, OtherDir}

\* The answers of the surroundings that can fail in these runs: the client
\* cannot be made, or the engine rejects the build.
DirFailures == {"client", "engine"}

\* The surroundings of a call in these runs.
DirEnvs == {AllOk} \cup {[AllOk EXCEPT ![f] = FALSE] : f \in DirFailures}

\* The checkouts of the directories: of the earliest time, or of the start
\* of the last minute.
DirCheckouts ==
  {tr \in CheckoutTrees : tr[MainFile] \in {0, MaxMinute * SecondsPerMinute}}

\* The function f without x, and with x at v.
Without(f, x) ==
  IF DOMAIN f \ {x} = {} THEN <<>> ELSE [y \in DOMAIN f \ {x} |-> f[y]]

With(f, x, v) == [y \in DOMAIN f \cup {x} |-> IF y = x THEN v ELSE f[y]]

InitDirs ==
  /\ images = <<>>
  /\ tree = <<>>
  /\ manifestText = ""
  /\ hist = <<>>
  /\ dirs \in {d \in [TheDirs -> [tree : DirCheckouts, text : {GoodManifest, OtherManifest}]] :
                 d[Dir].text = GoodManifest /\ d[OtherDir].text = OtherManifest}
  /\ GenIdle
  /\ JobIdle
  /\ CatIdle
  /\ WalkIdle
  /\ StoreIdle
  /\ CallersIdle
  /\ NetIdle
  /\ OutIdle
  /\ MergeIdle
  /\ RunIdle

\* The Build calls begun so far on the directories.
DirCalls ==
  Cardinality({i \in 1..Len(hist) : hist[i].op = "Build"})
    + Cardinality(DOMAIN running)

DirTouches == Cardinality({i \in 1..Len(hist) : hist[i].op = "Touch"})

dirFrame ==
  <<genVars, jobVars, catVars, walkVars, storeVars, callerVars, netVars, outVars,
    mergeVars>>

\* A process calls Code.Build on the directory c (store.go:1334), whatever
\* calls are in progress.  raced tells whether another call wrote the
\* engine's images during this one.
BeginBuildIn(c) ==
  /\ DirCalls < MaxDirCalls
  /\ running' = With(running, DirCalls + 1,
                     [dir |-> c, raced |-> FALSE,
                      call |-> NewCall(AllOk, 0, images, dirs[c].tree, dirs[c].text)])
  /\ UNCHANGED <<images, tree, manifestText, hist, dirs>>
  /\ UNCHANGED dirFrame

\* The calls in progress other than n, after n has run a statement: a call
\* on the directory that n wrote is marked touched, and every call is
\* marked raced when n wrote the engine's images.
Others(n, c, wroteDir, wroteEngine) ==
  LET rest == Without(running, n)
  IN  [i \in DOMAIN rest |->
         [rest[i] EXCEPT !.raced = @ \/ wroteEngine,
                         !.call.touched = @ \/ (wroteDir /\ rest[i].dir = c)]]

\* The call n runs the statement it is at, on the engine and on its
\* directory as they are now, and goes on or returns.
StepBuildIn(n) ==
  /\ n \in DOMAIN running
  /\ LET c == running[n].dir
     IN  \E ok \in BOOLEAN, now \in BinaryTimes :
           /\ ok \/ Asks(running[n].call.pc) \in DirFailures
           /\ LET m == Statement(c, Answered(running[n].call, ok, now), images,
                                 dirs[c].tree, dirs[c].text)
                  rest == Others(n, c, m.tree # dirs[c].tree, m.images # images)
              IN  /\ images' = m.images
                  /\ dirs' = [dirs EXCEPT ![c].tree = m.tree]
                  /\ IF m.done
                     THEN /\ hist' = Append(hist,
                                BuildEvent(m, dirs[c].text)
                                  @@ [dir |-> c, raced |-> running[n].raced])
                          /\ running' = IF DOMAIN rest = {} THEN <<>> ELSE rest
                     ELSE /\ running' = With(rest, n, [running[n] EXCEPT !.call = m.call])
                          /\ UNCHANGED hist
  /\ UNCHANGED <<tree, manifestText>>
  /\ UNCHANGED dirFrame

\* Another process writes the source file of the directory c while a call
\* is in progress; the calls in progress on c are marked.
TouchIn(c) ==
  /\ DOMAIN running # {}
  /\ DirTouches < MaxDirTouches
  /\ \E t \in Times :
       /\ t # dirs[c].tree[MainFile]
       /\ dirs' = [dirs EXCEPT ![c].tree[MainFile] = t]
       /\ hist' = Append(hist,
            [op |-> "Touch", dir |-> c, err |-> FALSE, step |-> "", builds |-> 0,
             lookups |-> 0, touched |-> FALSE, raced |-> FALSE,
             tree |-> dirs[c].tree, treeAfter |-> dirs'[c].tree])
  /\ running' = [i \in DOMAIN running |->
                   [running[i] EXCEPT !.call.touched = @ \/ (running[i].dir = c)]]
  /\ UNCHANGED <<images, tree, manifestText>>
  /\ UNCHANGED dirFrame

NextDirs ==
  \/ \E c \in TheDirs : BeginBuildIn(c)
  \/ \E n \in 1..MaxDirCalls : StepBuildIn(n)
  \/ \E c \in TheDirs : TouchIn(c)

SpecDirs == InitDirs /\ [][NextDirs]_vars

\* The Build calls that have returned, in the order of their returns.
DirReturns == {i \in 1..Len(hist) : hist[i].op = "Build"}

\* C33: Cache transparency.  When a Build call takes the cache hit on the
\* image that an earlier Build call of the same directory created, and no
\* process has written the directory during the two calls or between them,
\* the descriptor it returns (made from the image's labels) is the
\* descriptor the creating call returned (made from the manifest file): the
\* same name, image reference, description, timeout, options, required
\* variables and asset types, which are those of the directory's manifest.
C33_CacheTransparency ==
  \A i, j \in DirReturns :
    ( /\ i < j
      /\ hist[i].step = "rebuilt"
      /\ hist[j].step = "hit"
      /\ hist[i].dir = hist[j].dir
      /\ ~hist[i].touched /\ ~hist[j].touched
      /\ hist[j].treeAfter = hist[i].treeAfter
      /\ hist[j].imagesAfter = hist[i].imagesAfter
      /\ \A k \in (i + 1)..(j - 1) : hist[k].builds = 0 )
    => /\ ~hist[i].err /\ ~hist[j].err
       /\ hist[j].ct = hist[i].ct
       /\ hist[j].ct.Name = name(hist[j].dir)
       /\ hist[j].ct.Image = imageName(hist[j].dir)
       /\ LET m == ParseManifest(hist[j].text).manifest
          IN  /\ hist[j].ct.Description = m.Description
              /\ hist[j].ct.Timeout = m.Timeout
              /\ hist[j].ct.Options = UnmarshalOptions(m).options
              /\ hist[j].ct.RequiredVars = m.RequiredVars
              /\ hist[j].ct.Assets = m.AssetTypes

\* A directory is built and built again with nothing modified, and the
\* second call takes the cache hit.
C33_Witness ==
  /\ Len(hist) = 2
  /\ hist[1].op = "Build" /\ hist[2].op = "Build"
  /\ hist[1].dir = Dir /\ hist[2].dir = Dir
  /\ hist[1].step = "rebuilt" /\ hist[1].builds = 1
  /\ hist[2].step = "hit" /\ hist[2].builds = 0
  /\ ~hist[1].touched /\ ~hist[2].touched
  /\ hist[2].tree = hist[1].treeAfter
  /\ hist[2].ct.RequiredVars = <<"VAR">>
  /\ hist[2].ct.Assets = <<"Hostname">>

\* The calls that have issued their engine build call with the engine
\* accepting it, in the order of their returns.
Builders == {i \in DirReturns : hist[i].step \in {"rebuilt", "checktype"}}

\* C37: the image tag and the checktype name are made from the last
\* element of the directory's path and nothing else.  Two directories with
\* one base name have one tag and one name; a Build of either reads and
\* writes the one image of that tag, and with the same files answers the
\* same (in every state with no call in progress); so a Build of one directory can take the cache hit on the image
\* built from the other, and returns the other's descriptor, or can
\* replace that image: the tag carries the labels of the engine build that
\* ended last, of whichever directory.
C37_OneRecordPerBaseName ==
  /\ Dir # OtherDir
  /\ name(Dir) = name(OtherDir)
  /\ name(Dir) = "vulcan-example"
  /\ imageName(Dir) = imageName(OtherDir)
  /\ imageName(Dir) = "vulcan-example-local"
  /\ DOMAIN images \subseteq {imageName(Dir)}
  /\ running = <<>>
       => \A c \in TheDirs : \A env \in DirEnvs, now \in BinaryTimes :
            Build(Dir, images, dirs[c].tree, dirs[c].text, env, now)
              = Build(OtherDir, images, dirs[c].tree, dirs[c].text, env, now)
  /\ \A i \in DirReturns :
       hist[i].step = "hit"
         => \E j \in Builders :
              /\ j < i
              /\ hist[i].ct.Description
                   = ParseManifest(hist[j].content).manifest.Description
              /\ hist[i].imagesAfter = hist[j].imagesAfter
  /\ Builders # {}
       => LET last == Max(Builders)
          IN  images = [t \in {imageName(Dir)} |->
                          NewLabels(name(Dir), hist[last].content,
                                    Format(hist[last].modif))]

\* The second directory is built after the first and takes the cache hit
\* on the first one's image: the descriptor returned holds the manifest of
\* the first directory, not its own.
C37_Witness ==
  /\ Len(hist) = 2
  /\ hist[1].op = "Build" /\ hist[2].op = "Build"
  /\ hist[1].dir = Dir /\ hist[1].step = "rebuilt"
  /\ hist[2].dir = OtherDir /\ hist[2].step = "hit"
  /\ hist[2].text = OtherManifest
  /\ hist[2].ct.Description = ParseManifest(GoodManifest).manifest.Description
  /\ hist[2].ct.Description # ParseManifest(OtherManifest).manifest.Description

\* The second directory is built after the first and replaces the image.
C37_Overwrite ==
  /\ Len(hist) = 2
  /\ hist[1].op = "Build" /\ hist[2].op = "Build"
  /\ hist[1].dir = Dir /\ hist[1].step = "rebuilt"
  /\ hist[2].dir = OtherDir /\ hist[2].step = "rebuilt"
  /\ ~hist[2].raced
  /\ images[imageName(Dir)][checktypeManifest] = OtherManifest

\* The two directories are built at the same time: the lookup of each call
\* falls before the engine build of the other, both rebuild, and the tag
\* is left with the labels of the engine build that ended last.
C37_BothRebuild ==
  /\ Len(hist) = 2
  /\ hist[1].op = "Build" /\ hist[2].op = "Build"
  /\ hist[1].dir = Dir /\ hist[1].step = "rebuilt" /\ hist[1].images = <<>>
  /\ hist[2].dir = OtherDir /\ hist[2].step = "rebuilt" /\ hist[2].images = <<>>
  /\ hist[2].raced
  /\ hist[1].builds + hist[2].builds = 2
  /\ images[imageName(Dir)][checktypeManifest] = OtherManifest

\* C39: Catalog key invariant.  In every catalog NewCatalog returns, each
\* entry is stored under the key that is the entry's own Name; the nil
\* catalog of an error return has no entry.
C39_KeyIsName ==
  catCalls > 0
  => /\ \A n \in DOMAIN resolved.catalog.entries :
          resolved.catalog.entries[n].Name = n
     /\ resolved.err # "" => resolved.catalog = NilCatalog

\* A catalog of one entry built from the local directory and one read from
\* a remote list, each under its name.
C39_Witness ==
  /\ catCalls > 0 /\ resolved.err = ""
  /\ Len(sources) = 2
  /\ sources[1] = DirSource
  /\ DOMAIN resolved.catalog.entries = {name(Dir), "checktype1"}
  /\ resolved.catalog.entries[name(Dir)].Image = imageName(Dir)
  /\ resolved.catalog.entries["checktype1"].Image = "registry-a/checktype1"

\* The callers whose upload of a well-formed report has returned.
Uploaded ==
  {p \in Procs : /\ callers[p].op = "Upload"
                 /\ callers[p].pc = "idle"
                 /\ callers[p].u.kind = "reports"
                 /\ ~UnmarshalReport(callers[p].u.content).err}

\* C38: No lost updates under concurrency.  Once a "reports" upload of a
\* well-formed report has returned, it has returned no error and the store
\* has an entry under its check identifier, whatever the other callers did
\* meanwhile, the first uploads on a fresh store (where the map is still to
\* be made) included; when two concurrent uploads under different
\* identifiers are all the calls made, the store holds exactly their two
\* reports.
C38_NoLostUpdate ==
  /\ \A p \in Uploaded :
       /\ callers[p].err = ""
       /\ callers[p].u.id \in DOMAIN MapAt(heap, rsReports)
  /\ \A p, q \in Uploaded :
       (p # q /\ callers[p].u.id # callers[q].u.id /\ begun = Cardinality(Procs))
       => MapAt(heap, rsReports)
            = (callers[p].u.id :> UnmarshalReport(callers[p].u.content).report
               @@ callers[q].u.id :> UnmarshalReport(callers[q].u.content).report)

\* Two uploads under different identifiers have returned, the first calls
\* on a fresh store; the first to take the lock found the map nil and the
\* other found the first one's report.
C38_Witness ==
  \E p, q \in Uploaded :
    /\ p # q
    /\ begun = Cardinality(Procs)
    /\ callers[p].u = [id |-> "check1", kind |-> "reports", content |-> ContentA]
    /\ callers[q].u = [id |-> "check2", kind |-> "reports", content |-> ContentB]
    /\ callers[p].atLock = <<>>
    /\ callers[q].atLock = ("check1" :> ReportA)
    /\ DOMAIN MapAt(heap, rsReports) = {"check1", "check2"}

(***************************************************************************)
(* The container runtime client (package containers): the runtime          *)
(* variants, the host gateway they give, and the gateways of a network.    *)
(* An IPv4 address is its four octets; a network is its address and the    *)
(* number of leading mask bits.  Errors are the messages of the wrapped    *)
(* chain, outermost first; the empty sequence is nil.                      *)
(***************************************************************************)
\* IPAM entries per network.
MaxIPAM == 2
\* Calls per run.
MaxNetCalls == 1

\* The names of the runtimes (containers.go:40-51).
RuntimeDockerd == "Dockerd"
RuntimeDockerdDockerDesktop == "DockerdDockerDesktop"
RuntimeDockerdRancherDesktop == "DockerdRancherDesktop"
RuntimeDockerdPodmanDesktop == "DockerdPodmanDesktop"
Runtimes ==
  {RuntimeDockerd, RuntimeDockerdDockerDesktop, RuntimeDockerdRancherDesktop,
   RuntimeDockerdPodmanDesktop}

\* The texts of the model that are IPv4 addresses, with their octets.
IPTable ==
  ("172.17.0.1" :> <<172, 17, 0, 1>>)
  @@ ("192.168.5.1" :> <<192, 168, 5, 1>>)
  @@ ("172.17.0.0" :> <<172, 17, 0, 0>>)
  @@ ("172.17.0.5" :> <<172, 17, 0, 5>>)
  @@ ("192.168.5.0" :> <<192, 168, 5, 0>>)

\* The texts of the model of the form address/bits, split at the slash.
CIDRTable ==
  ("172.17.0.0/16" :> [addr |-> "172.17.0.0", bits |-> 16])
  @@ ("172.17.0.5/16" :> [addr |-> "172.17.0.5", bits |-> 16])
  @@ ("192.168.5.0/24" :> [addr |-> "192.168.5.0", bits |-> 24])
  @@ ("172.17.0.0/33" :> [addr |-> "172.17.0.0", bits |-> 33])

RECURSIVE Pow2(_)
Pow2(n) == IF n = 0 THEN 1 ELSE 2 * Pow2(n - 1)

\* The mask bits that fall into octet k of an address.
BitsIn(bits, k) ==
  LET b == bits - 8 * (k - 1) IN IF b < 0 THEN 0 ELSE IF b > 8 THEN 8 ELSE b

\* ip.Mask(mask): the address with the bits outside the mask cleared.
Masked(ip, bits) ==
  [k \in 1..4 |-> (ip[k] \div Pow2(8 - BitsIn(bits, k))) * Pow2(8 - BitsIn(bits, k))]

\* net.ParseIP(text): nil for a text that is no address.
ParseIP(text) ==
  IF text \in DOMAIN IPTable THEN [err |-> FALSE, ip |-> IPTable[text]]
  ELSE [err |-> TRUE, ip |-> <<0, 0, 0, 0>>]

\* net.ParseCIDR(text): the network of the address and the mask; an error
\* for a text not of the form address/bits with at most 32 bits.
ParseCIDR(text) ==
  IF text \notin DOMAIN CIDRTable THEN [err |-> TRUE, net |-> [IP |-> <<0, 0, 0, 0>>, Bits |-> 0]]
  ELSE LET c == CIDRTable[text]
       IN  IF ParseIP(c.addr).err \/ c.bits > 32
           THEN [err |-> TRUE, net |-> [IP |-> <<0, 0, 0, 0>>, Bits |-> 0]]
           ELSE [err |-> FALSE,
                 net |-> [IP |-> Masked(ParseIP(c.addr).ip, c.bits), Bits |-> c.bits]]

\* (*net.IPNet).Contains(ip).
Contains(n, ip) == Masked(ip, n.Bits) = Masked(n.IP, n.Bits)

\* ip.String().
IPString(ip) ==
  ToString(ip[1]) \o "." \o ToString(ip[2]) \o "." \o ToString(ip[3]) \o "." \o ToString(ip[4])

\* One turn of the loop of gateways without the test that the subnet
\* contains the gateway.
EntryErrorNoContains(cfg) ==
  IF ParseCIDR(cfg.Subnet).err THEN <<"invalid subnet">>
  ELSE IF ParseIP(cfg.Gateway).err THEN <<"invalid IP">>
  ELSE <<>>

\* One turn of the loop of gateways (containers.go:263-275): the error the
\* entry makes the call return, or none.
EntryError(cfg) ==
  IF ParseCIDR(cfg.Subnet).err THEN <<"invalid subnet">>
  ELSE IF ParseIP(cfg.Gateway).err THEN <<"invalid IP">>
  ELSE IF ~Contains(ParseCIDR(cfg.Subnet).net, ParseIP(cfg.Gateway).ip)
    THEN <<"subnet mismatch">>
  ELSE <<>>

\* subnet.IP = ip: the gateway of an entry, with the mask of its subnet.
GatewayOf(cfg) ==
  [IP |-> ParseIP(cfg.Gateway).ip, Bits |-> ParseCIDR(cfg.Subnet).net.Bits]

\* gateways(ctx, network): inspectOk is whether the engine answers the
\* network inspection, cfgs the IPAM entries it reports.  The call returns
\* at the first entry that gives an error.
gateways(inspectOk, cfgs) ==
  LET badAt == {i \in 1..Len(cfgs) : EntryError(cfgs[i]) # <<>>}
  IN  IF ~inspectOk THEN [err |-> <<"network inspect">>, gws |-> <<>>, inspects |-> 1]
      ELSE IF badAt # {}
        THEN [err |-> EntryError(cfgs[CHOOSE i \in badAt : \A j \in badAt : i <= j]),
              gws |-> <<>>, inspects |-> 1]
      ELSE [err |-> <<>>, gws |-> [i \in 1..Len(cfgs) |-> GatewayOf(cfgs[i])],
            inspects |-> 1]

NoGateway == [IP |-> <<0, 0, 0, 0>>, Bits |-> 0]

\* bridgeGateway(): the one gateway of the default bridge network.
bridgeGateway(inspectOk, cfgs) ==
  LET r == gateways(inspectOk, cfgs)
  IN  IF r.err # <<>>
        THEN [err |-> <<"could not get Docker network gateway">> \o r.err,
              gw |-> NoGateway, inspects |-> r.inspects]
      ELSE IF Len(r.gws) # 1
        THEN [err |-> <<"unexpected number of gateways">>, gw |-> NoGateway,
              inspects |-> r.inspects]
      ELSE [err |-> <<>>, gw |-> r.gws[1], inspects |-> r.inspects]

\* HostGatewayHostname().
HostGatewayHostname(rt) ==
  IF rt = RuntimeDockerdPodmanDesktop THEN "host.containers.internal"
  ELSE "host.docker.internal"

\* HostGatewayMapping with the mapping given for every runtime.
HostGatewayMappingForAll(rt) == HostGatewayHostname(rt) \o ":host-gateway"

\* HostGatewayMapping().
HostGatewayMapping(rt) ==
  IF rt = RuntimeDockerd THEN HostGatewayHostname(rt) \o ":host-gateway" ELSE ""

\* HostGatewayInterfaceAddr(): inspects counts the network inspections the
\* call made.
HostGatewayInterfaceAddr(rt, inspectOk, cfgs) ==
  IF rt = RuntimeDockerd
  THEN LET r == bridgeGateway(inspectOk, cfgs)
       IN  IF r.err # <<>>
           THEN [err |-> <<"get bridge gateway">> \o r.err, addr |-> "",
                 inspects |-> r.inspects]
           ELSE [err |-> <<>>, addr |-> IPString(r.gw.IP), inspects |-> r.inspects]
  ELSE [err |-> <<>>, addr |-> "127.0.0.1", inspects |-> 0]

\* The IPAM entries of the model.
SubnetTexts == {"172.17.0.0/16", "172.17.0.5/16", "192.168.5.0/24", "172.17.0.0/33"}
GatewayTexts == {"172.17.0.1", "192.168.5.1", "172.17.0.256", ""}
IPAMConfigs == [Subnet : SubnetTexts, Gateway : GatewayTexts]
IPAMLists == UNION {[1..n -> IPAMConfigs] : n \in 0..MaxIPAM}

\* The engine's answer to the network inspection: a refusal, or the IPAM
\* entries of the network.
InitNet ==
  /\ BuildIdle
  /\ GenIdle
  /\ JobIdle
  /\ CatIdle
  /\ WalkIdle
  /\ StoreIdle
  /\ CallersIdle
  /\ DirsIdle
  /\ OutIdle
  /\ MergeIdle
  /\ RunIdle
  /\ runtime \in Runtimes
  /\ ipam \in [ok : BOOLEAN, cfgs : IPAMLists]
  /\ netResult = <<>>
  /\ netCalls = 0

netFrame ==
  <<buildVars, genVars, jobVars, catVars, walkVars, storeVars, callerVars,
    dirVars, outVars, mergeVars, runVars, runtime, ipam>>

\* One call of HostGatewayHostname and of HostGatewayMapping.
DoHostGateway ==
  /\ netCalls < MaxNetCalls
  /\ netResult' = [op |-> "HostGateway",
                   hostname |-> HostGatewayHostname(runtime),
                   mapping |-> HostGatewayMapping(runtime)]
  /\ netCalls' = netCalls + 1
  /\ UNCHANGED netFrame

\* One call of HostGatewayInterfaceAddr.
DoHostGatewayInterfaceAddr ==
  /\ netCalls < MaxNetCalls
  /\ netResult' = [op |-> "HostGatewayInterfaceAddr",
                   r |-> HostGatewayInterfaceAddr(runtime, ipam.ok, ipam.cfgs)]
  /\ netCalls' = netCalls + 1
  /\ UNCHANGED netFrame

\* One call of gateways on the network.
DoGateways ==
  /\ netCalls < MaxNetCalls
  /\ netResult' = [op |-> "gateways", r |-> gateways(ipam.ok, ipam.cfgs)]
  /\ netCalls' = netCalls + 1
  /\ UNCHANGED netFrame

\* One call of bridgeGateway.
DoBridgeGateway ==
  /\ netCalls < MaxNetCalls
  /\ netResult' = [op |-> "bridgeGateway", r |-> bridgeGateway(ipam.ok, ipam.cfgs)]
  /\ netCalls' = netCalls + 1
  /\ UNCHANGED netFrame

NextNet == DoHostGateway \/ DoHostGatewayInterfaceAddr \/ DoGateways \/ DoBridgeGateway

SpecNet == InitNet /\ [][NextNet]_vars

\* The entries of the model that are well formed, stated from the texts
\* alone: the subnet is a network, the gateway an address, and the gateway
\* is an address of the subnet.
WellFormedEntries ==
  {[Subnet |-> "172.17.0.0/16", Gateway |-> "172.17.0.1"],
   [Subnet |-> "172.17.0.5/16", Gateway |-> "172.17.0.1"],
   [Subnet |-> "192.168.5.0/24", Gateway |-> "192.168.5.1"]}

\* C31: the host gateway mapping is "host.docker.internal:host-gateway" for
\* the plain daemon and empty for every desktop variant; the host gateway
\* hostname is "host.containers.internal" for Podman Desktop only and
\* "host.docker.internal" otherwise; the interface address of a desktop
\* variant is 127.0.0.1 with no error and no call of the engine, and only
\* the plain daemon inspects the bridge network, once, and gives the
\* address of its gateway or the error wrapped as "get bridge gateway".
C31_RuntimeTable ==
  /\ (netResult # <<>> /\ netResult.op = "HostGateway") =>
       /\ netResult.mapping =
            (IF runtime = RuntimeDockerd THEN "host.docker.internal:host-gateway" ELSE "")
       /\ netResult.hostname =
            (IF runtime = RuntimeDockerdPodmanDesktop THEN "host.containers.internal"
             ELSE "host.docker.internal")
  /\ (netResult # <<>> /\ netResult.op = "HostGatewayInterfaceAddr") =>
       IF runtime = RuntimeDockerd
       THEN /\ netResult.r.inspects = 1
            /\ \/ /\ netResult.r.err = <<>>
                  /\ netResult.r.addr \in {"172.17.0.1", "192.168.5.1"}
                  /\ ipam.ok
                  /\ Len(ipam.cfgs) = 1
                  /\ ipam.cfgs[1].Gateway = netResult.r.addr
               \/ /\ netResult.r.err # <<>>
                  /\ Head(netResult.r.err) = "get bridge gateway"
                  /\ netResult.r.addr = ""
       ELSE /\ netResult.r.inspects = 0
            /\ netResult.r.err = <<>>
            /\ netResult.r.addr = "127.0.0.1"

\* A desktop variant was asked for its interface address while the engine
\* would have answered with one well formed gateway.
C31_Witness ==
  /\ netResult # <<>>
  /\ netResult.op = "HostGatewayInterfaceAddr"
  /\ runtime = RuntimeDockerdRancherDesktop
  /\ ipam.ok
  /\ Len(ipam.cfgs) = 1
  /\ ipam.cfgs[1] \in WellFormedEntries
  /\ netResult.r.addr = "127.0.0.1"

\* C40: gateways gives either an error and no list, or the list of the
\* gateways of all the entries: a refused inspection, an entry whose subnet
\* is no network, whose gateway is no address, or whose gateway lies
\* outside its subnet makes the whole call fail, whatever the other entries
\* are; bridgeGateway succeeds exactly when gateways gives one gateway.
C40_GatewaysAllOrNothing ==
  /\ (netResult # <<>> /\ netResult.op = "gateways") =>
       LET allGood == ipam.ok /\ \A i \in 1..Len(ipam.cfgs) : ipam.cfgs[i] \in WellFormedEntries
       IN  /\ (netResult.r.err = <<>>) <=> allGood
           /\ netResult.r.err # <<>> => netResult.r.gws = <<>>
           /\ netResult.r.err = <<>> =>
                /\ Len(netResult.r.gws) = Len(ipam.cfgs)
                /\ \A i \in 1..Len(ipam.cfgs) :
                     IPString(netResult.r.gws[i].IP) = ipam.cfgs[i].Gateway
  /\ (netResult # <<>> /\ netResult.op = "bridgeGateway") =>
       /\ (netResult.r.err = <<>>) <=>
            /\ ipam.ok
            /\ Len(ipam.cfgs) = 1
            /\ ipam.cfgs[1] \in WellFormedEntries
       /\ netResult.r.err = <<>> => IPString(netResult.r.gw.IP) = ipam.cfgs[1].Gateway
       /\ netResult.r.err # <<>> => netResult.r.gw = NoGateway

\* gateways was called on a network whose first entry is well formed and
\* whose second has its gateway outside its subnet: no list came back.
C40_Witness ==
  /\ netResult # <<>>
  /\ netResult.op = "gateways"
  /\ ipam.ok
  /\ Len(ipam.cfgs) = 2
  /\ ipam.cfgs[1] \in WellFormedEntries
  /\ ipam.cfgs[2] = [Subnet |-> "192.168.5.0/24", Gateway |-> "172.17.0.1"]
  /\ netResult.r.err = <<"subnet mismatch">>
  /\ netResult.r.gws = <<>>

\* bridgeGateway was called on a network with two well formed entries.
C40_TwoGateways ==
  /\ netResult # <<>>
  /\ netResult.op = "bridgeGateway"
  /\ ipam.ok
  /\ Len(ipam.cfgs) = 2
  /\ \A i \in 1..2 : ipam.cfgs[i] \in WellFormedEntries
  /\ netResult.r.err = <<"unexpected number of gateways">>

(***************************************************************************)
(* The output of an image build (containers.go:283-319, the same code as   *)
(* dockerutil.go:198-223).  The body of the engine's answer is the lines   *)
(* that end with a newline, the text after the last newline (empty when    *)
(* the body ends with a newline), and the way the stream ends.             *)
(***************************************************************************)
\* Newline terminated lines per body.
MaxLines == 2
\* Calls per run.
MaxOutCalls == 1

StatusLine == "{\"stream\":\"Step 1/2\",\"status\":\"ok\"}"
ErrorLine == "{\"errorDetail\":{\"message\":\"boom\"},\"error\":\"boom\"}"
BadLine == "not json"
EmptyLine == ""
LineTexts == {StatusLine, ErrorLine, BadLine, EmptyLine}

\* The ways a body ends: io.EOF, or an error of the transport.
EndOfFile == "EOF"
EndReset == "connection reset by peer"

\* parseDockerAPIResultLine(line): json.Unmarshal into dockerAPIResp.  The
\* error detail is the empty sequence for a nil pointer.
parseDockerAPIResultLine(text) ==
  IF text = StatusLine THEN [err |-> <<>>, Status |-> "ok", ErrorDetail |-> <<>>]
  ELSE IF text = ErrorLine THEN [err |-> <<>>, Status |-> "", ErrorDetail |-> <<"boom">>]
  ELSE IF text = EmptyLine
    THEN [err |-> <<"unexpected end of JSON input">>, Status |-> "", ErrorDetail |-> <<>>]
  ELSE [err |-> <<"invalid character 'o' in literal null (expecting 'u')">>,
        Status |-> "", ErrorDetail |-> <<>>]

\* The error a line read in full makes readDockerOutput return, or none.
LineError(text) ==
  LET msg == parseDockerAPIResultLine(text)
  IN  IF msg.err # <<>> THEN msg.err ELSE msg.ErrorDetail

\* readDockerOutput(r): ReadString('\n') gives each terminated line with a
\* nil error, and the text after the last newline together with the error
\* that ends the stream; on an error the loop returns the lines appended so
\* far, and no error if the stream ended with io.EOF.
readDockerOutput(body) ==
  LET badAt == {i \in 1..Len(body.lines) : LineError(body.lines[i]) # <<>>}
  IN  IF badAt # {}
      THEN [lines |-> <<>>,
            err |-> LineError(body.lines[CHOOSE i \in badAt : \A j \in badAt : i <= j])]
      ELSE [lines |-> [i \in 1..Len(body.lines) |-> body.lines[i] \o "\n"],
            err |-> IF body.end = EndOfFile THEN <<>> ELSE <<body.end>>]

RECURSIVE JoinLines(_)
\* strings.Join(lines, "\n").
JoinLines(lines) ==
  IF lines = <<>> THEN ""
  ELSE IF Len(lines) = 1 THEN lines[1]
  ELSE lines[1] \o "\n" \o JoinLines(Tail(lines))

\* DockerdClient.BuildImage from the answer of ImageBuild on.
BuildImageOutput(buildOk, body) ==
  IF ~buildOk THEN [out |-> "", err |-> <<"image build">>]
  ELSE LET r == readDockerOutput(body)
       IN  [out |-> JoinLines(r.lines), err |-> r.err]

\* The bodies of the model; tail is empty or holds the one unterminated text.
Bodies ==
  [lines : UNION {[1..n -> LineTexts] : n \in 0..MaxLines},
   tail : {<<>>} \cup {<<t>> : t \in LineTexts \ {EmptyLine}},
   end : {EndOfFile, EndReset}]

InitOutput ==
  /\ BuildIdle
  /\ GenIdle
  /\ JobIdle
  /\ CatIdle
  /\ WalkIdle
  /\ StoreIdle
  /\ CallersIdle
  /\ DirsIdle
  /\ NetIdle
  /\ MergeIdle
  /\ RunIdle
  /\ stream \in [buildOk : BOOLEAN, body : Bodies]
  /\ outResult = <<>>
  /\ outCalls = 0

outFrame ==
  <<buildVars, genVars, jobVars, catVars, walkVars, storeVars, callerVars,
    dirVars, netVars, mergeVars, runVars, stream>>

\* One call of readDockerOutput on the body.
DoReadDockerOutput ==
  /\ outCalls < MaxOutCalls
  /\ outResult' = [op |-> "readDockerOutput", r |-> readDockerOutput(stream.body)]
  /\ outCalls' = outCalls + 1
  /\ UNCHANGED outFrame

\* One call of BuildImage.
DoBuildImage ==
  /\ outCalls < MaxOutCalls
  /\ outResult' = [op |-> "BuildImage", r |-> BuildImageOutput(stream.buildOk, stream.body)]
  /\ outCalls' = outCalls + 1
  /\ UNCHANGED outFrame

NextOutput == DoReadDockerOutput \/ DoBuildImage

SpecOutput == InitOutput /\ [][NextOutput]_vars

\* The texts of a body, terminated or not, in the order they are sent.
TextsOf(body) == body.lines \o body.tail

\* C35: readDockerOutput returns an error whenever a line of the body,
\* the unterminated last one included, carries an error detail or is not
\* valid JSON, and whenever the stream ends otherwise than by its end; when
\* it returns no error it returns all the lines of the body.
C35_NoSwallowedError ==
  (outResult # <<>> /\ outResult.op = "readDockerOutput") =>
    LET texts == TextsOf(stream.body)
        faulty == \/ \E i \in 1..Len(texts) : texts[i] \in {ErrorLine, BadLine, EmptyLine}
                  \/ stream.body.end # EndOfFile
    IN  /\ faulty => outResult.r.err # <<>>
        /\ outResult.r.err = <<>> => Len(outResult.r.lines) = Len(texts)

\* The same for the lines that end with a newline only, which is what the
\* code does: the text after the last newline is neither parsed nor
\* returned.
C35_TerminatedLinesChecked ==
  (outResult # <<>> /\ outResult.op = "readDockerOutput") =>
    LET texts == stream.body.lines
        faulty == \/ \E i \in 1..Len(texts) : texts[i] \in {ErrorLine, BadLine, EmptyLine}
                  \/ stream.body.end # EndOfFile
    IN  /\ faulty <=> outResult.r.err # <<>>
        /\ outResult.r.err = <<>> =>
             outResult.r.lines = [i \in 1..Len(texts) |-> texts[i] \o "\n"]

\* A body of one good line followed by an unterminated error detail was
\* read to its end with no error.
C35_SwallowedTail ==
  /\ outResult # <<>>
  /\ outResult.op = "readDockerOutput"
  /\ stream.body = [lines |-> <<StatusLine>>, tail |-> <<ErrorLine>>, end |-> EndOfFile]
  /\ outResult.r = [lines |-> <<StatusLine \o "\n">>, err |-> <<>>]

(***************************************************************************)
(* The option maps of the check generator as Go maps: the checktype's      *)
(* Options, the target's Options and a check's options are addresses on    *)
(* the heap, so that a merge written into a shared map shows.              *)
(***************************************************************************)
\* The merge written into the checktype's own map.
MergeOptionsInPlace(h, d, o) ==
  IF d = NilMap
  THEN [heap |-> Alloc(h, MergeOptions(MapAt(h, d), MapAt(h, o))), addr |-> NewAddr(h)]
  ELSE [heap |-> [h EXCEPT ![d] = MergeOptions(h[d], MapAt(h, o))], addr |-> d]

\* The options merge on maps: a new map with the entries of the
\* checktype's defaults, then every key of the target's map set in it.
MergeOptionsAt(h, d, o) ==
  [heap |-> Alloc(h, MergeOptions(MapAt(h, d), MapAt(h, o))), addr |-> NewAddr(h)]

RECURSIVE ChecksOfTargetAt(_, _, _, _, _)
\* The checks of one target, with the maps made for their options.
ChecksOfTargetAt(h, cat, names, t, id) ==
  IF names = <<>> THEN [heap |-> h, checks |-> <<>>]
  ELSE LET ct == cat[Head(names)]
       IN  IF Accepts(ct, t.AssetType)
           THEN LET m == MergeOptionsAt(h, ct.Options, t.Options)
                    rest == ChecksOfTargetAt(m.heap, cat, Tail(names), t, id + 1)
                IN  [heap |-> rest.heap,
                     checks |-> <<[id |-> id, checktype |-> ct, target |-> t,
                                   options |-> m.addr]>> \o rest.checks]
           ELSE ChecksOfTargetAt(h, cat, Tail(names), t, id)

RECURSIVE ChecksOfTargetsAt(_, _, _, _)
ChecksOfTargetsAt(h, cat, ts, id) ==
  IF ts = <<>> THEN [heap |-> h, checks |-> <<>>]
  ELSE LET first == ChecksOfTargetAt(h, cat, SeqOf(DOMAIN cat), Head(ts), id)
           rest == ChecksOfTargetsAt(first.heap, cat, Tail(ts), id + Len(first.checks))
       IN  [heap |-> rest.heap, checks |-> first.checks \o rest.checks]

\* generateChecks(checktypes, targets) on maps.
generateChecksAt(h, cat, ts, id) ==
  IF \E i \in 1..Len(ts) : ~IsValid(ts[i].AssetType)
  THEN [err |-> TRUE, checks |-> <<>>, heap |-> h]
  ELSE LET r == ChecksOfTargetsAt(h, cat, Dedup(ts), id)
       IN  [err |-> FALSE, checks |-> r.checks, heap |-> r.heap]

\* The inputs: checktype1 always, checktype2 in some runs; target i has its
\* override map at address 2 + i, or none.
MergeIdentifiers == {"example.com", "example.org"}
MergeAssetTypes == {"DomainName", ""}
MergeOverrides == {<<>>, [k \in {"option2"} |-> "target value"],
                   [k \in {"option2", "option3"} |-> "target value"]}
MergeTargetInputs ==
  [Identifier : MergeIdentifiers, AssetType : MergeAssetTypes,
   hasOptions : BOOLEAN, overrides : MergeOverrides]
MergeTargetLists ==
  UNION {{ts \in [1..n -> MergeTargetInputs] :
            \A i \in 1..n : ~ts[i].hasOptions => ts[i].overrides = <<>>} :
         n \in 0..MaxTargets}
DefaultsAddr(n) == IF n = "checktype1" THEN 1 ELSE 2

InitMerge ==
  /\ BuildIdle
  /\ JobIdle
  /\ CatIdle
  /\ WalkIdle
  /\ CallersIdle
  /\ DirsIdle
  /\ NetIdle
  /\ OutIdle
  /\ RunIdle
  /\ rsReports = NilMap
  /\ handed = <<>>
  /\ storeLog = <<>>
  /\ \E d1 \in DefaultOptions, S \in {{"checktype1"}, CtNames}, ins \in MergeTargetLists :
       /\ heap = <<d1, [k \in {"option3"} |-> "checktype value"]>>
                 \o [i \in 1..Len(ins) |-> ins[i].overrides]
       /\ catalog = [n \in S |-> ChecktypeOf(n, <<"DomainName">>, DefaultsAddr(n))]
       /\ targets = [i \in 1..Len(ins) |->
                       [Identifier |-> ins[i].Identifier, AssetType |-> ins[i].AssetType,
                        Options |-> IF ins[i].hasOptions THEN 2 + i ELSE NilMap]]
  /\ heapBefore = heap
  /\ checks = <<>>
  /\ genErr = FALSE
  /\ genCalls = 0
  /\ nextID = 1

\* One call of generateChecks with the catalog and the targets.
GenerateChecksAt ==
  /\ genCalls < MaxGenCalls
  /\ LET r == generateChecksAt(heap, catalog, targets, nextID)
     IN  /\ heap' = r.heap
         /\ checks' = r.checks
         /\ genErr' = r.err
         /\ nextID' = nextID + Len(r.checks)
  /\ genCalls' = genCalls + 1
  /\ UNCHANGED <<catalog, targets, heapBefore>>
  /\ UNCHANGED <<rsReports, handed, storeLog>>
  /\ UNCHANGED <<buildVars, jobVars, catVars, walkVars, callerVars>>
  /\ UNCHANGED <<dirVars, netVars, outVars, runVars>>

NextMerge == GenerateChecksAt

SpecMerge == InitMerge /\ [][NextMerge]_vars

\* C34: generateChecks leaves the checktypes' default option maps and the
\* targets' override maps as they were; each check's options are a map of
\* its own, holding the defaults with the keys of its target set; and of two
\* checks of one checktype for different targets, a key that only the
\* first target overrides has in the second check the checktype's default
\* value, or is absent when the checktype has no default for it.
C34_MergeOnCopy ==
  /\ \A a \in DOMAIN heapBefore : heap[a] = heapBefore[a]
  /\ \A i \in 1..Len(checks) :
       /\ checks[i].options \notin DOMAIN heapBefore
       /\ checks[i].options \in DOMAIN heap
       /\ heap[checks[i].options] =
            MergeOptions(MapAt(heapBefore, checks[i].checktype.Options),
                         MapAt(heapBefore, checks[i].target.Options))
       /\ \A j \in 1..Len(checks) : i # j => checks[i].options # checks[j].options
  /\ \A i, j \in 1..Len(checks) :
       (/\ i # j
        /\ checks[i].checktype.Name = checks[j].checktype.Name) =>
         LET defaults == MapAt(heapBefore, checks[i].checktype.Options)
             mine == MapAt(heapBefore, checks[i].target.Options)
             theirs == MapAt(heapBefore, checks[j].target.Options)
             got == heap[checks[j].options]
         IN  \A k \in DOMAIN mine \ DOMAIN theirs :
               IF k \in DOMAIN defaults THEN got[k] = defaults[k] ELSE k \notin DOMAIN got

\* Two checks of checktype1 were made for two targets, the first of which
\* overrides option2, which has a default, and the second of which
\* overrides nothing.
C34_Witness ==
  /\ Len(checks) >= 2
  /\ \E i, j \in 1..Len(checks) :
       /\ i < j
       /\ checks[i].checktype.Name = "checktype1"
       /\ checks[j].checktype.Name = "checktype1"
       /\ checks[i].target.Identifier # checks[j].target.Identifier
       /\ "option2" \in DOMAIN MapAt(heapBefore, checks[i].checktype.Options)
       /\ "option2" \in DOMAIN MapAt(heap, checks[i].target.Options)
       /\ checks[j].target.Options = NilMap
       /\ heap[checks[i].options]["option2"] = "target value"
       /\ heap[checks[j].options]["option2"] = "checktype value"

====
